---- MODULE Spec2Model ----
(***************************************************************************)
(* Permission resolution, permission cache, authorization gates and the    *)
(* login lockout of the VMS backend.                                        *)
(*                                                                          *)
(* The store (the relational database) is modelled by the tables the gates  *)
(* and the login flow read and write; a request is handled as one action.   *)
(* Time is the wall clock (Date.now(), milliseconds).  A store query takes  *)
(* time: a gate's queries read the store at the time the request arrives    *)
(* and the handler continues `latency' later.                               *)
(***************************************************************************)
EXTENDS Integers, Sequences, FiniteSets, TLC

VARIABLES
    userRoles,        \* table user_roles: a set of rows
    rolePermissions,  \* table role_permissions: a set of rows
    rolesActive,      \* table roles: column is_active of each role
    permissionCache,  \* Map<string, Set<string>> of the rbac middleware
    cacheTimestamps,  \* Map<string, number> of the rbac middleware
    now,              \* Date.now()
    response,         \* what the last request handled got back
    cacheReadAt,      \* history: when the store was read for each cached entry
    invalidated,      \* history: accounts not loaded since clearAllPermissionCaches
    systemUsers,      \* table system_users (lockout fields)
    authenticationTokens, \* table authentication_tokens
    failedSince,      \* history: failed verifications since the last success/reset
    issued,           \* history: the tokens handed out, and whether a password
                      \* reset of their account has succeeded since
    loading,          \* the loadUserPermissions calls awaiting the store
    loggingIn,        \* the login requests between two awaits
    revokedAt,        \* history: when removeRole last took RevokedSlug from
                      \* each account
    attempts,         \* history: the logins of each account in flight
                      \* together, since none was in flight
    resetting,        \* resetPassword calls between their select and their
                      \* updates
    redeemed          \* history: the reset tokens a resetPassword call has
                      \* changed a password with

vars == << userRoles, rolePermissions, rolesActive, permissionCache,
           cacheTimestamps, now, response, cacheReadAt, invalidated, systemUsers,
           authenticationTokens, failedSince, issued, loading, loggingIn,
           revokedAt, attempts, resetting, redeemed >>

rbacVars == << userRoles, rolePermissions, rolesActive, permissionCache,
               cacheTimestamps, cacheReadAt, invalidated >>

authVars == << systemUsers, authenticationTokens, failedSince, issued >>

resetVars == << resetting, redeemed >>
flightVars == << loading, loggingIn, revokedAt, attempts, resetVars >>

(***************************************************************************)
(* Bounds of the model                                                      *)
(***************************************************************************)
MaxTicks == 3          \* clock ticks after the initial time
MaxLatencyTicks == 2   \* longest store latency of one request, in ticks
MaxRequired == 2       \* longest list of slugs given to a permission gate
MaxRoleNames == 1      \* longest list of names given to requireRole
MaxLockTicks == 3      \* clock ticks of half a lock window in SpecLogin
MaxAttempts == 6       \* largest failedLoginAttempts a login may write
MaxTokens == 2         \* most rows of authentication_tokens
MaxTokenTicks == 3     \* clock ticks of half a refresh lifetime in SpecTokens
MaxLoads == 2          \* most loadUserPermissions calls awaiting the store
MaxLogins == 2         \* most login requests in flight
MaxResets == 2         \* most resetPassword calls between select and updates
MaxStarted == 3        \* most logins of an account in flight together, one
                       \* after the other, while one is always in flight

(***************************************************************************)
(* Program constants                                                        *)
(***************************************************************************)
CACHE_TTL_MS == 60000
LockThreshold == 5                       \* newFailedAttempts >= 5
LockMs == 30 * 60 * 1000                 \* 30 minutes
RefreshMs == 7 * 24 * 60 * 60 * 1000     \* 7 days
AccessMs == 24 * 60 * 60 * 1000          \* config.jwt.expiresIn, "24h"
ResetMs == 60 * 60 * 1000                \* 1 hour

TickMs == CACHE_TTL_MS \div 2
NowInit == 2 * TickMs
MaxNow == NowInit + MaxTicks * TickMs

(***************************************************************************)
(* Identifiers in the store                                                 *)
(***************************************************************************)
Users == {"u1", "u2"}
RoleIds == {"r1", "r2"}
PermissionIds == {"pm1", "pm2"}
\* a null timestamp column (times are positive)
Null == 0

\* table roles: name and slug of each role
roles == [r \in RoleIds |->
            IF r = "r1" THEN [name |-> "Administrator", slug |-> "admin",
                              isSystemRole |-> TRUE]
                        ELSE [name |-> "Host", slug |-> "host",
                              isSystemRole |-> FALSE]]

\* table permissions: slug of each permission
permissions == [p \in PermissionIds |->
                  IF p = "pm1" THEN [slug |-> "users:delete"]
                               ELSE [slug |-> "users:read"]]

Slugs == {permissions[p].slug : p \in PermissionIds}
RoleNames == {roles[r].name : r \in RoleIds} \cup {roles[r].slug : r \in RoleIds}

\* a row of user_roles; expiresAt is Null or a time
UserRoleRow(u, r, a, e) == [userId |-> u, roleId |-> r, isActive |-> a, expiresAt |-> e]

\* a row of role_permissions; the handlers insert it with the default of
\* column granted
RolePermissionRow(r, p) == [roleId |-> r, permissionId |-> p, granted |-> TRUE]

\* req.user as the authentication middleware leaves it
NoReqUser == [absent |-> TRUE]
ReqUsers == {NoReqUser} \cup {[userId |-> u] : u \in Users \cup {""}}

\* the lists of at most n distinct elements of S
RECURSIVE ListsUpTo(_, _)
ListsUpTo(S, n) ==
    IF n = 0 THEN {<< >>}
    ELSE LET shorter == ListsUpTo(S, n - 1)
         IN shorter \cup
            {Append(p[1], p[2]) :
                p \in {q \in shorter \X S :
                          /\ Len(q[1]) = n - 1
                          /\ \A i \in 1..Len(q[1]) : q[1][i] # q[2]}}

RequiredLists == ListsUpTo(Slugs, MaxRequired)
RoleNameLists == ListsUpTo(RoleNames, MaxRoleNames)

(***************************************************************************)
(* JavaScript Map and Array helpers                                         *)
(***************************************************************************)
EmptyMap == [k \in {} |-> {}]
MapHas(m, k) == k \in DOMAIN m
MapSet(m, k, v) == [x \in DOMAIN m \cup {k} |-> IF x = k THEN v ELSE m[x]]
MapDelete(m, k) == [x \in DOMAIN m \ {k} |-> m[x]]

\* Array.prototype.filter with the predicate "is not in `set'"
RECURSIVE FilterNotIn(_, _)
FilterNotIn(list, set) ==
    IF list = << >> THEN << >>
    ELSE LET rest == FilterNotIn(Tail(list), set)
         IN IF Head(list) \notin set THEN << Head(list) >> \o rest ELSE rest

\* Array.prototype.some with the predicate "is in `set'"
SomeIn(list, set) == \E i \in 1..Len(list) : list[i] \in set

\* a freshness test that still serves an entry exactly CACHE_TTL_MS old
CacheFreshInclusive(userId) ==
    /\ MapHas(permissionCache, userId)
    /\ MapHas(cacheTimestamps, userId)
    /\ cacheTimestamps[userId] # 0
    /\ now - cacheTimestamps[userId] <= CACHE_TTL_MS

(***************************************************************************)
(* loadUserPermissions                                                      *)
(***************************************************************************)
\* the cache check of loadUserPermissions: cached && ts && Date.now() - ts < TTL
CacheFresh(userId) ==
    /\ MapHas(permissionCache, userId)
    /\ MapHas(cacheTimestamps, userId)
    /\ cacheTimestamps[userId] # 0
    /\ now - cacheTimestamps[userId] < CACHE_TTL_MS

\* select roleId from user_roles where user_id = userId
RoleLinks(userId) == {l \in userRoles : l.userId = userId}

\* select permissions.slug from role_permissions inner join permissions
\* where role_id in roleIds
RolePermRows(roleIds) ==
    {[permissionSlug |-> permissions[rp.permissionId].slug] :
        rp \in {x \in rolePermissions :
                    x.roleId \in roleIds /\ x.permissionId \in DOMAIN permissions}}

\* the set loadUserPermissions computes on a cache miss
ResolvePermissions(userId) ==
    LET roleLinks == RoleLinks(userId)
        roleIds == {l.roleId : l \in roleLinks}
    IN IF roleLinks = {} THEN {}
       ELSE {r.permissionSlug : r \in RolePermRows(roleIds)}

\* which of its store queries loadUserPermissions issues on a miss
QueriesOnMiss(userId) == IF RoleLinks(userId) = {} THEN 1 ELSE 2

\* loadUserPermissions that puts an empty entry in the cache before it
\* queries the store
LoadUserPermissionsPlaceholder(userId, latency, fail) ==
    IF CacheFresh(userId)
    THEN [threw |-> FALSE, perms |-> permissionCache[userId], hit |-> TRUE,
          cache |-> permissionCache, stamps |-> cacheTimestamps,
          readAts |-> cacheReadAt, readAt |-> cacheReadAt[userId],
          cacheReads |-> 1, storeQueries |-> 0, end |-> now]
    ELSE IF \/ fail = "first"
            \/ fail = "second" /\ QueriesOnMiss(userId) = 2
    THEN [threw |-> TRUE, perms |-> {}, hit |-> FALSE,
          cache |-> MapSet(permissionCache, userId, {}),
          stamps |-> MapSet(cacheTimestamps, userId, now),
          readAts |-> MapSet(cacheReadAt, userId, now), readAt |-> now,
          cacheReads |-> 1,
          storeQueries |-> IF fail = "first" THEN 1 ELSE 2,
          end |-> now + latency]
    ELSE LET permSet == ResolvePermissions(userId)
         IN [threw |-> FALSE, perms |-> permSet, hit |-> FALSE,
             cache |-> MapSet(permissionCache, userId, permSet),
             stamps |-> MapSet(cacheTimestamps, userId, now + latency),
             readAts |-> MapSet(cacheReadAt, userId, now), readAt |-> now,
             cacheReads |-> 1, storeQueries |-> QueriesOnMiss(userId),
             end |-> now + latency]

\* loadUserPermissions(userId): `fail' names the store query that throws, the
\* queries read the store now and the function goes on `latency' later.
\* The result describes the call: what it returned or that it threw, the two
\* maps after it and the lookups it made.
LoadUserPermissions(userId, latency, fail) ==
    IF CacheFresh(userId)
    THEN [threw |-> FALSE, perms |-> permissionCache[userId], hit |-> TRUE,
          cache |-> permissionCache, stamps |-> cacheTimestamps,
          readAts |-> cacheReadAt, readAt |-> cacheReadAt[userId],
          cacheReads |-> 1, storeQueries |-> 0, end |-> now]
    ELSE IF \/ fail = "first"
            \/ fail = "second" /\ QueriesOnMiss(userId) = 2
    THEN [threw |-> TRUE, perms |-> {}, hit |-> FALSE,
          cache |-> permissionCache, stamps |-> cacheTimestamps,
          readAts |-> cacheReadAt, readAt |-> now,
          cacheReads |-> 1,
          storeQueries |-> IF fail = "first" THEN 1 ELSE 2,
          end |-> now + latency]
    ELSE LET permSet == ResolvePermissions(userId)
         IN [threw |-> FALSE, perms |-> permSet, hit |-> FALSE,
             cache |-> MapSet(permissionCache, userId, permSet),
             stamps |-> MapSet(cacheTimestamps, userId, now + latency),
             readAts |-> MapSet(cacheReadAt, userId, now), readAt |-> now,
             cacheReads |-> 1, storeQueries |-> QueriesOnMiss(userId),
             end |-> now + latency]

(***************************************************************************)
(* Responses                                                                *)
(***************************************************************************)
\* What a request got back.  status 0 with next = TRUE is a gate that called
\* next().  The lookup fields say what the handler did on the way.  stage and
\* subject follow the script "gate passed, assignment removed, cache cleared"
\* over consecutive requests; afterRevocation marks the check that follows it,
\* afterClearAll the first load of an account since clearAllPermissionCaches.
\* body is a login's request body, failedBefore the failedLoginAttempts the
\* login read from the account's row, token the token the request carried or
\* the refresh token the response returns, accessToken the access token the
\* response returns, wrote whether the handler wrote to the store.
\* no token in a request or a response
NoToken == [absent |-> TRUE]

NoResponse ==
    [gate |-> "none", reqUser |-> NoReqUser, required |-> << >>, status |-> 0,
     next |-> FALSE, message |-> "", missing |-> << >>, requiredOut |-> << >>,
     perms |-> {}, hit |-> FALSE, cacheReads |-> 0, storeQueries |-> 0,
     storeFailed |-> FALSE, readAt |-> 0, at |-> 0,
     stage |-> "", subject |-> "", afterRevocation |-> FALSE, afterClearAll |-> FALSE,
     body |-> [email |-> "", password |-> ""], failedBefore |-> 0,
     token |-> NoToken, accessToken |-> NoToken, wrote |-> FALSE,
     cleared |-> FALSE]

Respond(gate, reqUser, required, fields) ==
    [f \in DOMAIN NoResponse |->
        IF f \in DOMAIN fields THEN fields[f]
        ELSE IF f = "gate" THEN gate
        ELSE IF f = "reqUser" THEN reqUser
        ELSE IF f = "required" THEN required
        ELSE NoResponse[f]]

\* a check of req.user that forgets the userId: if (!authUser)
HasUserIdLoose(authUser) == authUser # NoReqUser

\* !authUser?.userId is false
HasUserId(authUser) == authUser # NoReqUser /\ authUser.userId # ""

\* the slug of the end-to-end revocation scenario
RevokedSlug == "users:delete"

Grants(roleId, slug) ==
    \E rp \in rolePermissions :
        rp.roleId = roleId /\ permissions[rp.permissionId].slug = slug

HoldsGranting(rows, userId, slug) ==
    \E l \in rows : l.userId = userId /\ Grants(l.roleId, slug)

\* the last request was a requirePermissions(RevokedSlug) check that passed
PassedFor(userId) ==
    /\ response.gate = "requirePermissions" /\ response.next
    /\ response.required = << RevokedSlug >>
    /\ response.reqUser = [userId |-> userId]

\* the lookup fields of a response, from a loadUserPermissions call
LookupFields(load) ==
    [perms |-> load.perms, hit |-> load.hit, cacheReads |-> load.cacheReads,
     storeQueries |-> load.storeQueries, storeFailed |-> load.threw,
     readAt |-> load.readAt, at |-> load.end]

(***************************************************************************)
(* requirePermissions(...requiredPermissions)                               *)
(***************************************************************************)
\* requirePermissions that lets a request pass on any one of the slugs
RequirePermissionsResponseSome(authUser, requiredPermissions, load) ==
    IF load.threw
    THEN [status |-> 500, message |-> "Permission check failed"]
    ELSE LET missingPermissions == FilterNotIn(requiredPermissions, load.perms)
         IN IF Len(missingPermissions) > 0
               /\ ~SomeIn(requiredPermissions, load.perms)
            THEN [status |-> 403, message |-> "Insufficient permissions",
                  missing |-> missingPermissions]
            ELSE [next |-> TRUE]

RequirePermissionsResponse(authUser, requiredPermissions, load) ==
    IF load.threw
    THEN [status |-> 500, message |-> "Permission check failed"]
    ELSE LET missingPermissions == FilterNotIn(requiredPermissions, load.perms)
         IN IF Len(missingPermissions) > 0
            THEN [status |-> 403, message |-> "Insufficient permissions",
                  missing |-> missingPermissions]
            ELSE [next |-> TRUE]

RequirePermissions(authUser, requiredPermissions, latency, fail) ==
    IF ~HasUserId(authUser)
    THEN /\ response' = Respond("requirePermissions", authUser, requiredPermissions,
                                [status |-> 401, message |-> "Authentication required"])
         /\ UNCHANGED << rbacVars, now, authVars, flightVars >>
    ELSE LET load == LoadUserPermissions(authUser.userId, latency, fail)
             out == RequirePermissionsResponse(authUser, requiredPermissions, load)
         IN /\ load.end <= MaxNow
            /\ permissionCache' = load.cache
            /\ cacheTimestamps' = load.stamps
            /\ cacheReadAt' = load.readAts
            /\ now' = load.end
            /\ response' = Respond("requirePermissions", authUser, requiredPermissions,
                              out @@ LookupFields(load) @@
                              [afterRevocation |->
                                  /\ response.stage = "cleared"
                                  /\ response.subject = authUser.userId
                                  /\ requiredPermissions = << RevokedSlug >>,
                               afterClearAll |-> authUser.userId \in invalidated])
            /\ invalidated' = invalidated \ {authUser.userId}
            /\ UNCHANGED << userRoles, rolePermissions, rolesActive, authVars, flightVars >>

(***************************************************************************)
(* requirePermissions across its awaits: the cache lookup and the store     *)
(* queries, then, when the store has answered, the cache write and the      *)
(* response                                                                 *)
(***************************************************************************)
\* a request with req.user.userId = userId reaches loadUserPermissions, the
\* cache has no fresh entry and the queries are sent; they read the store now
LoadBegin(userId) ==
    /\ ~CacheFresh(userId)
    /\ Cardinality(loading) < MaxLoads
    /\ loading' = loading \cup
          {[userId |-> userId, permSet |-> ResolvePermissions(userId),
            storeQueries |-> QueriesOnMiss(userId), readAt |-> now]}
    /\ response' = NoResponse
    /\ UNCHANGED << rbacVars, now, authVars, loggingIn, revokedAt, attempts,
                    resetVars >>

\* what loadUserPermissions returns when the queries of `load' have answered
LoadResult(load) ==
    [threw |-> FALSE, perms |-> load.permSet, hit |-> FALSE,
     cache |-> MapSet(permissionCache, load.userId, load.permSet),
     stamps |-> MapSet(cacheTimestamps, load.userId, now),
     readAts |-> MapSet(cacheReadAt, load.userId, load.readAt),
     readAt |-> load.readAt, cacheReads |-> 1,
     storeQueries |-> load.storeQueries, end |-> now]

\* the store has answered within the longest latency: the set is cached with
\* the time of now and requirePermissions(requiredPermissions) decides on it
LoadEnd(load, requiredPermissions) ==
    LET authUser == [userId |-> load.userId]
        result == LoadResult(load)
    IN /\ load \in loading
       /\ now - load.readAt <= MaxLatencyTicks * TickMs
       /\ loading' = loading \ {load}
       /\ permissionCache' = result.cache
       /\ cacheTimestamps' = result.stamps
       /\ cacheReadAt' = result.readAts
       /\ invalidated' = invalidated \ {load.userId}
       /\ response' = Respond("requirePermissions", authUser, requiredPermissions,
                         RequirePermissionsResponse(authUser, requiredPermissions,
                                                    result)
                         @@ LookupFields(result))
       /\ UNCHANGED << userRoles, rolePermissions, rolesActive, now, authVars,
                       loggingIn, revokedAt, attempts, resetVars >>

(***************************************************************************)
(* requireAnyPermission(...permissions)                                     *)
(***************************************************************************)
\* requireAnyPermission written with every() in place of some()
RequireAnyPermissionResponseEvery(authUser, perms, load) ==
    IF load.threw
    THEN [status |-> 500, message |-> "Permission check failed"]
    ELSE LET hasPermission == \A i \in 1..Len(perms) : perms[i] \in load.perms
         IN IF ~hasPermission
            THEN [status |-> 403, message |-> "Insufficient permissions",
                  requiredOut |-> perms]
            ELSE [next |-> TRUE]

RequireAnyPermissionResponse(authUser, perms, load) ==
    IF load.threw
    THEN [status |-> 500, message |-> "Permission check failed"]
    ELSE LET hasPermission == SomeIn(perms, load.perms)
         IN IF ~hasPermission
            THEN [status |-> 403, message |-> "Insufficient permissions",
                  requiredOut |-> perms]
            ELSE [next |-> TRUE]

RequireAnyPermission(authUser, perms, latency, fail) ==
    IF ~HasUserId(authUser)
    THEN /\ response' = Respond("requireAnyPermission", authUser, perms,
                                [status |-> 401, message |-> "Authentication required"])
         /\ UNCHANGED << rbacVars, now, authVars, flightVars >>
    ELSE LET load == LoadUserPermissions(authUser.userId, latency, fail)
             out == RequireAnyPermissionResponse(authUser, perms, load)
         IN /\ load.end <= MaxNow
            /\ permissionCache' = load.cache
            /\ cacheTimestamps' = load.stamps
            /\ cacheReadAt' = load.readAts
            /\ now' = load.end
            /\ response' = Respond("requireAnyPermission", authUser, perms,
                                   out @@ LookupFields(load) @@
                                   [afterClearAll |-> authUser.userId \in invalidated])
            /\ invalidated' = invalidated \ {authUser.userId}
            /\ UNCHANGED << userRoles, rolePermissions, rolesActive, authVars, flightVars >>

(***************************************************************************)
(* requireRole(...roleNames)                                                *)
(***************************************************************************)
\* select name, slug from roles where id in roleIds
UserRoleRecords(roleIds) == {roles[r] : r \in roleIds \cap DOMAIN roles}

InList(list, x) == \E i \in 1..Len(list) : list[i] = x

RequireRoleResponse(authUser, roleNames, fail) ==
    LET roleLinks == RoleLinks(authUser.userId)
        userRoleRecords == UserRoleRecords({l.roleId : l \in roleLinks})
        hasRole == \E role \in userRoleRecords :
                      InList(roleNames, role.name) \/ InList(roleNames, role.slug)
    IN IF fail = "first"
       THEN [status |-> 500, message |-> "Role check failed",
             storeQueries |-> 1, storeFailed |-> TRUE]
       ELSE IF roleLinks = {}
       THEN [status |-> 403, message |-> "No roles assigned", storeQueries |-> 1]
       ELSE IF fail = "second"
       THEN [status |-> 500, message |-> "Role check failed",
             storeQueries |-> 2, storeFailed |-> TRUE]
       ELSE IF ~hasRole
       THEN [status |-> 403, message |-> "Required role not assigned",
             requiredOut |-> roleNames, storeQueries |-> 2]
       ELSE [next |-> TRUE, storeQueries |-> 2]

RequireRole(authUser, roleNames, latency, fail) ==
    IF ~HasUserId(authUser)
    THEN /\ response' = Respond("requireRole", authUser, roleNames,
                                [status |-> 401, message |-> "Authentication required"])
         /\ UNCHANGED << rbacVars, now, authVars, flightVars >>
    ELSE /\ now + latency <= MaxNow
         /\ now' = now + latency
         /\ response' = Respond("requireRole", authUser, roleNames,
                                RequireRoleResponse(authUser, roleNames, fail)
                                @@ [readAt |-> now, at |-> now + latency])
         /\ UNCHANGED << rbacVars, authVars, flightVars >>

(***************************************************************************)
(* Cache management                                                         *)
(***************************************************************************)
\* clearPermissionCache that deletes nothing
ClearPermissionCacheNothing(userId) ==
    /\ response' = [NoResponse EXCEPT
                        !.gate = "clearPermissionCache", !.subject = userId,
                        !.stage = IF response.stage = "removed"
                                     /\ response.subject = userId
                                  THEN "cleared" ELSE ""]
    /\ UNCHANGED << rbacVars, now, authVars, flightVars >>

\* clearPermissionCache(userId)
ClearPermissionCache(userId) ==
    /\ permissionCache' = MapDelete(permissionCache, userId)
    /\ cacheTimestamps' = MapDelete(cacheTimestamps, userId)
    /\ cacheReadAt' = MapDelete(cacheReadAt, userId)
    /\ response' = [NoResponse EXCEPT
                        !.gate = "clearPermissionCache", !.subject = userId,
                        !.stage = IF response.stage = "removed"
                                     /\ response.subject = userId
                                  THEN "cleared" ELSE ""]
    /\ UNCHANGED << userRoles, rolePermissions, rolesActive, invalidated, now, authVars, flightVars >>

\* clearAllPermissionCaches that clears nothing
ClearAllPermissionCachesNothing ==
    /\ invalidated' = Users
    /\ response' = [NoResponse EXCEPT !.gate = "clearAllPermissionCaches"]
    /\ UNCHANGED << userRoles, rolePermissions, rolesActive, permissionCache,
                    cacheTimestamps, cacheReadAt, now, authVars, flightVars >>

\* clearAllPermissionCaches()
ClearAllPermissionCaches ==
    /\ permissionCache' = EmptyMap
    /\ cacheTimestamps' = EmptyMap
    /\ cacheReadAt' = EmptyMap
    /\ invalidated' = Users
    /\ response' = [NoResponse EXCEPT !.gate = "clearAllPermissionCaches"]
    /\ UNCHANGED << userRoles, rolePermissions, rolesActive, now, authVars, flightVars >>

(***************************************************************************)
(* UsersController: role assignment                                         *)
(***************************************************************************)
\* the rows assignRoles inserts for user `id': one per requested role the
\* user has no row for (of any state) and that exists in table roles
RowsToInsert(id, roleIds) ==
    LET existingSet == {l.roleId : l \in RoleLinks(id)}
        newRoleIds == roleIds \ existingSet
        validSet == newRoleIds \cap DOMAIN roles
    IN {UserRoleRow(id, roleId, TRUE, Null) : roleId \in validSet}

\* UsersController.assignRoles: PUT /api/users/:id/roles
AssignRoles(id, roleIds) ==
    /\ userRoles' = userRoles \cup RowsToInsert(id, roleIds)
    /\ response' = [NoResponse EXCEPT !.gate = "assignRoles", !.status = 200,
                                      !.subject = id,
                                      !.wrote = RowsToInsert(id, roleIds) # {}]
    /\ UNCHANGED << rolePermissions, rolesActive, permissionCache, cacheTimestamps,
                    cacheReadAt, invalidated, now, authVars, flightVars >>

\* UsersController.removeRole: DELETE /api/users/:id/roles/:roleId
RemoveRole(id, roleId) ==
    /\ userRoles' = {l \in userRoles : ~(l.userId = id /\ l.roleId = roleId)}
    /\ response' = [NoResponse EXCEPT
                        !.gate = "removeRole", !.status = 200, !.subject = id,
                        !.wrote = userRoles' # userRoles,
                        !.stage = IF /\ PassedFor(id)
                                     /\ \E l \in RoleLinks(id) :
                                            l.roleId = roleId /\ Grants(roleId, RevokedSlug)
                                     /\ ~HoldsGranting(userRoles', id, RevokedSlug)
                                  THEN "removed" ELSE ""]
    /\ revokedAt' = IF /\ HoldsGranting(userRoles, id, RevokedSlug)
                       /\ ~HoldsGranting(userRoles', id, RevokedSlug)
                    THEN [revokedAt EXCEPT ![id] = now] ELSE revokedAt
    /\ UNCHANGED << rolePermissions, rolesActive, permissionCache, cacheTimestamps,
                    cacheReadAt, invalidated, now, authVars, loading, loggingIn,
                    attempts, resetVars >>

(***************************************************************************)
(* RolesController: roles and their permissions                             *)
(***************************************************************************)
\* what the call auditLog({...}) between a handler's write and its cache
\* clear can do: "../utils/auditLog" exports auditLog as an instance of class
\* AuditLog, which is not callable, so the call throws a TypeError
AuditLogCall == {"threw"}

\* req.user.role of the requests to the roles routes
ReqRoles == {"super_admin", "admin"}

\* req.params.id of those requests: a role, or an id no role has
RoleParams == RoleIds \cup {"r0"}

\* req.body of PUT /api/roles/:id, as far as it sets isActive
RoleBodies ==
    {[fields |-> {"isActive"}, isActive |-> b] : b \in BOOLEAN}
        \cup {[fields |-> {}, isActive |-> FALSE]}

\* a handler's return before it has written
Refuse(gate, id, status) ==
    /\ response' = [NoResponse EXCEPT !.gate = gate, !.subject = id,
                                      !.status = status, !.at = now]
    /\ UNCHANGED << userRoles, rolePermissions, rolesActive, permissionCache,
                    cacheTimestamps, cacheReadAt, invalidated, now, authVars, flightVars >>

\* the rest of a handler from its audit call on: the call, then
\* clearAllPermissionCaches(), then the response with `status'; a throw goes
\* to the handler's catch, which responds with `catchStatus'
AuditClearRespond(gate, id, audit, wrote, status, catchStatus) ==
    IF audit = "threw"
    THEN /\ response' = [NoResponse EXCEPT !.gate = gate, !.subject = id,
                                           !.status = catchStatus, !.at = now,
                                           !.wrote = wrote]
         /\ UNCHANGED << permissionCache, cacheTimestamps, cacheReadAt,
                         invalidated >>
    ELSE /\ permissionCache' = EmptyMap
         /\ cacheTimestamps' = EmptyMap
         /\ cacheReadAt' = EmptyMap
         /\ invalidated' = Users
         /\ response' = [NoResponse EXCEPT !.gate = gate, !.subject = id,
                                           !.status = status, !.at = now,
                                           !.wrote = wrote, !.cleared = TRUE]

\* RolesController.update: PUT /api/roles/:id
UpdateRole(id, body, reqRole, audit) ==
    IF id \notin RoleIds THEN Refuse("roles.update", id, 404)
    ELSE IF roles[id].isSystemRole /\ reqRole # "super_admin"
    THEN Refuse("roles.update", id, 403)
    ELSE IF body.fields = {} THEN Refuse("roles.update", id, 200)
    ELSE /\ rolesActive' = [rolesActive EXCEPT ![id] = body.isActive]
         /\ AuditClearRespond("roles.update", id, audit, TRUE, 200, 400)
         /\ UNCHANGED << userRoles, rolePermissions, now, authVars, flightVars >>

\* RolesController.delete: DELETE /api/roles/:id, a soft delete
DeleteRole(id, audit) ==
    IF id \notin RoleIds THEN Refuse("roles.delete", id, 404)
    ELSE IF roles[id].isSystemRole THEN Refuse("roles.delete", id, 403)
    ELSE IF {l \in userRoles : l.roleId = id} # {}
    THEN Refuse("roles.delete", id, 400)
    ELSE /\ rolesActive' = [rolesActive EXCEPT ![id] = FALSE]
         /\ AuditClearRespond("roles.delete", id, audit, TRUE, 204, 500)
         /\ UNCHANGED << userRoles, rolePermissions, now, authVars, flightVars >>

\* RolesController.assignPermissions: PUT /api/roles/:id/permissions
AssignPermissions(id, permissionIds, reqRole, audit) ==
    IF id \notin RoleIds THEN Refuse("roles.assignPermissions", id, 404)
    ELSE IF roles[id].isSystemRole /\ reqRole # "super_admin"
    THEN Refuse("roles.assignPermissions", id, 403)
    ELSE LET existingSet == {rp.permissionId :
                                rp \in {x \in rolePermissions : x.roleId = id}}
             newPermissionIds == permissionIds \ existingSet
             toInsert == {RolePermissionRow(id, permissionId) :
                             permissionId \in newPermissionIds \cap DOMAIN permissions}
         IN /\ rolePermissions' = rolePermissions \cup toInsert
            /\ AuditClearRespond("roles.assignPermissions", id, audit,
                                 toInsert # {}, 200, 400)
            /\ UNCHANGED << userRoles, rolesActive, now, authVars, flightVars >>

\* RolesController.removePermission:
\* DELETE /api/roles/:id/permissions/:permissionId
RemovePermission(id, permissionId, reqRole, audit) ==
    IF id \notin RoleIds THEN Refuse("roles.removePermission", id, 404)
    ELSE IF roles[id].isSystemRole /\ reqRole # "super_admin"
    THEN Refuse("roles.removePermission", id, 403)
    ELSE /\ rolePermissions' =
               {rp \in rolePermissions :
                   ~(rp.roleId = id /\ rp.permissionId = permissionId)}
         /\ AuditClearRespond("roles.removePermission", id, audit,
                              rolePermissions' # rolePermissions, 200, 500)
         /\ UNCHANGED << userRoles, rolesActive, now, authVars, flightVars >>

(***************************************************************************)
(* The clock                                                                *)
(***************************************************************************)
Tick ==
    /\ now + TickMs <= MaxNow
    /\ now' = now + TickMs
    /\ response' = NoResponse
    /\ UNCHANGED << rbacVars, authVars, flightVars >>

\* a store that answers at once, or after the longest latency
Latencies == {0, MaxLatencyTicks * TickMs}
Failures == {"none", "first", "second"}

(***************************************************************************)
(* AuthController.login and the administrators' writes to system_users      *)
(***************************************************************************)
emails == [u \in Users |-> IF u = "u1" THEN "u1@vms.test" ELSE "u2@vms.test"]
Emails == {emails[u] : u \in Users} \cup {"nobody@vms.test"}
Passwords == {"pw1", "pw2"}
Salts == {"s1", "s2"}

\* bcrypt.hash(data, rounds): the digest of the data under a salt, which the
\* hash carries; hash() draws the salt at random
Bcrypt(data, salt) == [salt |-> salt, digest |-> << data, salt >>]

\* AuthUtils.comparePassword: bcrypt.compare re-hashes under the hash's salt
comparePassword(password, hash) == Bcrypt(password, hash.salt) = hash

\* jwt.sign(payload, config.jwt.secret, {expiresIn}) at time t: the payload
\* with iat and exp, which count seconds, under a signature made with the
\* server's secret
JwtSign(payload, t, expiresIn) ==
    [payload |-> payload, iat |-> t \div 1000,
     exp |-> (t \div 1000) + (expiresIn \div 1000), signature |-> "secret"]

\* AuthUtils.generateRefreshToken({userId, email}) signed at time t, with
\* config.jwt.refreshExpiresIn = expiresIn
generateRefreshToken(userId, email, t, expiresIn) ==
    JwtSign([userId |-> userId, email |-> email, type |-> "refresh"], t, expiresIn)

\* AuthUtils.generateAccessToken({userId, email, roles}) signed at time t;
\* config.jwt.expiresIn is its default
generateAccessToken(userId, email, roleNames, t) ==
    JwtSign([userId |-> userId, email |-> email, roles |-> roleNames,
             type |-> "access"], t, AccessMs)

\* the names of the roles joined to the account's row
UserRolesList(userId) == {roles[l.roleId].name : l \in RoleLinks(userId)}

\* the tokens login and forgotPassword have handed out, with `tokens' handed
\* out now
Issue(tokens) ==
    {i \in issued : i.token \notin tokens}
        \cup {[token |-> t, beforeReset |-> FALSE] : t \in tokens}

\* a login without the lock check
NeverLockedNow(user) == FALSE

\* user.isLocked && user.lockedUntil && user.lockedUntil > new Date()
IsLockedNow(user) ==
    user.isLocked /\ user.lockedUntil # Null /\ user.lockedUntil > now

\* a threshold test that locks one failure late: newFailedAttempts > 5
ShouldLockLate(newFailedAttempts) == newFailedAttempts > LockThreshold

\* shouldLock = newFailedAttempts >= 5
ShouldLock(newFailedAttempts) == newFailedAttempts >= LockThreshold

\* the roles joined to the account's row and the slugs granted to them, as
\* login returns them
LoginPermissions(userId) ==
    {permissions[rp.permissionId].slug :
        rp \in {x \in rolePermissions :
                  \E l \in userRoles : l.userId = userId /\ l.roleId = x.roleId}}

LoginResponse(email, password, fields) ==
    Respond("login", NoReqUser, << >>,
            [body |-> [email |-> email, password |-> password], at |-> now]
                @@ fields)

\* POST /auth/login with a body that passes loginSchema
Login(email, password, salt, refreshExpiresIn) ==
    LET userResult == {u \in Users : systemUsers[u].email = email}
    IN IF userResult = {}
       THEN /\ response' = LoginResponse(email, password,
                    [status |-> 401, message |-> "Invalid email or password"])
            /\ UNCHANGED << rbacVars, now, authVars, flightVars >>
       ELSE
       LET id == CHOOSE u \in userResult : TRUE
           user == systemUsers[id]
       IN IF ~user.isActive
          THEN /\ response' = LoginResponse(email, password,
                       [status |-> 401, message |-> "Account is inactive",
                        subject |-> id])
               /\ UNCHANGED << rbacVars, now, authVars, flightVars >>
          ELSE IF IsLockedNow(user)
          THEN /\ response' = LoginResponse(email, password,
                       [status |-> 401, message |-> "Account is temporarily locked",
                        subject |-> id,
                        failedBefore |-> user.failedLoginAttempts])
               /\ UNCHANGED << rbacVars, now, authVars, flightVars >>
          ELSE IF ~comparePassword(password, user.passwordHash)
          THEN LET newFailedAttempts == user.failedLoginAttempts + 1
                   shouldLock == ShouldLock(newFailedAttempts)
               IN /\ newFailedAttempts <= MaxAttempts
                  /\ systemUsers' =
                        [systemUsers EXCEPT ![id] =
                            IF shouldLock
                            THEN [user EXCEPT
                                    !.failedLoginAttempts = newFailedAttempts,
                                    !.isLocked = TRUE,
                                    !.lockedUntil = now + LockMs]
                            ELSE [user EXCEPT
                                    !.failedLoginAttempts = newFailedAttempts]]
                  /\ failedSince' =
                        [failedSince EXCEPT ![id] =
                            [count |-> @.count + 1, lastAt |-> now]]
                  /\ response' = LoginResponse(email, password,
                        [status |-> 401, message |-> "Invalid email or password",
                         subject |-> id])
                  /\ UNCHANGED << rbacVars, flightVars, now, authenticationTokens, issued >>
          ELSE /\ Cardinality(authenticationTokens) < MaxTokens
               /\ systemUsers' =
                     [systemUsers EXCEPT ![id] =
                         [user EXCEPT !.failedLoginAttempts = 0,
                                      !.lastActivityAt = now,
                                      !.isLocked = FALSE,
                                      !.lockedUntil = Null]]
               /\ authenticationTokens' = authenticationTokens \cup
                     {[id |-> Cardinality(authenticationTokens) + 1,
                       userId |-> id, tokenType |-> "refresh",
                       tokenHash |->
                           Bcrypt(generateRefreshToken(id, user.email, now,
                                                       refreshExpiresIn), salt),
                       expiresAt |-> now + RefreshMs, isActive |-> TRUE]}
               /\ failedSince' =
                     [failedSince EXCEPT ![id] = [count |-> 0, lastAt |-> 0]]
               /\ issued' = Issue({generateRefreshToken(id, user.email, now,
                                                        refreshExpiresIn),
                                   generateAccessToken(id, user.email,
                                                       UserRolesList(id), now)})
               /\ response' = LoginResponse(email, password,
                     [status |-> 200, message |-> "Login successful",
                      subject |-> id, perms |-> LoginPermissions(id),
                      failedBefore |-> user.failedLoginAttempts,
                      token |-> generateRefreshToken(id, user.email, now,
                                                     refreshExpiresIn),
                      accessToken |-> generateAccessToken(id, user.email,
                                                          UserRolesList(id), now)])
               /\ UNCHANGED << rbacVars, flightVars, now >>

(***************************************************************************)
(* login across its awaits: the select of the account, then (after          *)
(* comparePassword) the update of the lockout fields, then the rest and the *)
(* response                                                                 *)
(***************************************************************************)
\* the logins of an account in flight together: c the failedLoginAttempts in
\* the store when the first of them started, k how many have started, high
\* the largest failedLoginAttempts one of them wrote, plain whether all of
\* them carried a wrong password and wrote without error
NoAttempts == [c |-> 0, k |-> 0, high |-> 0, plain |-> TRUE]

InFlight(id) == {req \in loggingIn : req.id = id}

\* the request is past the lock check: the row it read, with the roles
\* joined to it
LoginBegin(email, password) ==
    LET userResult == {u \in Users : systemUsers[u].email = email}
    IN IF userResult = {}
       THEN /\ response' = LoginResponse(email, password,
                    [status |-> 401, message |-> "Invalid email or password"])
            /\ UNCHANGED << rbacVars, now, authVars, flightVars >>
       ELSE
       LET id == CHOOSE u \in userResult : TRUE
           user == systemUsers[id]
           valid == comparePassword(password, user.passwordHash)
       IN IF ~user.isActive
          THEN /\ response' = LoginResponse(email, password,
                       [status |-> 401, message |-> "Account is inactive",
                        subject |-> id])
               /\ UNCHANGED << rbacVars, now, authVars, flightVars >>
          ELSE IF IsLockedNow(user)
          THEN /\ response' = LoginResponse(email, password,
                       [status |-> 401, message |-> "Account is temporarily locked",
                        subject |-> id,
                        failedBefore |-> user.failedLoginAttempts])
               /\ UNCHANGED << rbacVars, now, authVars, flightVars >>
          ELSE /\ Cardinality(loggingIn) < MaxLogins
               /\ InFlight(id) # {} => attempts[id].k < MaxStarted
               /\ attempts' =
                     [attempts EXCEPT ![id] =
                         IF InFlight(id) = {}
                         THEN [c |-> user.failedLoginAttempts, k |-> 1,
                               high |-> 0, plain |-> ~valid]
                         ELSE [@ EXCEPT !.k = @ + 1, !.plain = @ /\ ~valid]]
               /\ loggingIn' = loggingIn \cup
                     {[n |-> attempts'[id].k, id |-> id, email |-> email,
                       password |-> password, user |-> user,
                       roleNames |-> UserRolesList(id), stage |-> "verify"]}
               /\ response' = NoResponse
               /\ UNCHANGED << rbacVars, now, authVars, loading, revokedAt,
                               resetVars >>

\* comparePassword has answered and the update of the lockout fields is
\* awaited: it is applied, or it throws and the catch answers 500
LoginWrite(req, threw) ==
    LET id == req.id
        newFailedAttempts == req.user.failedLoginAttempts + 1
        shouldLock == ShouldLock(newFailedAttempts)
        valid == comparePassword(req.password, req.user.passwordHash)
    IN /\ req \in loggingIn
       /\ req.stage = "verify"
       /\ IF threw
          THEN /\ loggingIn' = loggingIn \ {req}
               /\ attempts' = [attempts EXCEPT ![id].plain = FALSE]
               /\ response' = LoginResponse(req.email, req.password,
                     [status |-> 500, message |-> "Internal server error",
                      subject |-> id, storeFailed |-> TRUE])
               /\ UNCHANGED << systemUsers, failedSince >>
          ELSE IF ~valid
          THEN /\ newFailedAttempts <= MaxAttempts
               /\ systemUsers' =
                     [systemUsers EXCEPT ![id] =
                         IF shouldLock
                         THEN [@ EXCEPT !.failedLoginAttempts = newFailedAttempts,
                                        !.isLocked = TRUE,
                                        !.lockedUntil = now + LockMs]
                         ELSE [@ EXCEPT !.failedLoginAttempts = newFailedAttempts]]
               /\ failedSince' =
                     [failedSince EXCEPT ![id] =
                         [count |-> @.count + 1, lastAt |-> now]]
               /\ attempts' =
                     [attempts EXCEPT ![id].high =
                         IF newFailedAttempts > @ THEN newFailedAttempts ELSE @]
               /\ loggingIn' = (loggingIn \ {req})
                                  \cup {[req EXCEPT !.stage = "written"]}
               /\ response' = NoResponse
          ELSE /\ systemUsers' =
                     [systemUsers EXCEPT ![id] =
                         [@ EXCEPT !.failedLoginAttempts = 0,
                                   !.lastActivityAt = now,
                                   !.isLocked = FALSE,
                                   !.lockedUntil = Null]]
               /\ failedSince' =
                     [failedSince EXCEPT ![id] = [count |-> 0, lastAt |-> 0]]
               /\ loggingIn' = (loggingIn \ {req})
                                  \cup {[req EXCEPT !.stage = "reset"]}
               /\ response' = NoResponse
               /\ UNCHANGED attempts
       /\ UNCHANGED << rbacVars, now, authenticationTokens, issued, loading,
                       revokedAt, resetVars >>

\* a login that answers without waiting for its update of the lockout fields
WriteFireAndForget(req) == TRUE

\* the update of the lockout fields is awaited: the handler goes on when the
\* store has committed it
WriteAwaited(req) == req.stage \in {"written", "reset"}

\* the rest of the handler: the 401 of a failed verification, or the
\* permissions, the tokens, the refresh-token row and the 200
LoginRespond(req, salt) ==
    LET id == req.id
        valid == comparePassword(req.password, req.user.passwordHash)
        refreshToken == generateRefreshToken(id, req.user.email, now, RefreshMs)
        accessToken == generateAccessToken(id, req.user.email, req.roleNames, now)
    IN /\ req \in loggingIn
       /\ WriteAwaited(req)
       /\ loggingIn' = loggingIn \ {req}
       /\ IF ~valid
          THEN /\ response' = LoginResponse(req.email, req.password,
                     [status |-> 401, message |-> "Invalid email or password",
                      subject |-> id, wrote |-> req.stage = "written",
                      failedBefore |-> req.user.failedLoginAttempts])
               /\ UNCHANGED << authenticationTokens, issued >>
          ELSE /\ Cardinality(authenticationTokens) < MaxTokens
               /\ authenticationTokens' = authenticationTokens \cup
                     {[id |-> Cardinality(authenticationTokens) + 1,
                       userId |-> id, tokenType |-> "refresh",
                       tokenHash |-> Bcrypt(refreshToken, salt),
                       expiresAt |-> now + RefreshMs, isActive |-> TRUE]}
               /\ issued' = Issue({refreshToken, accessToken})
               /\ response' = LoginResponse(req.email, req.password,
                     [status |-> 200, message |-> "Login successful",
                      subject |-> id, perms |-> LoginPermissions(id),
                      wrote |-> req.stage = "reset",
                      failedBefore |-> req.user.failedLoginAttempts,
                      token |-> refreshToken, accessToken |-> accessToken])
       /\ UNCHANGED << rbacVars, now, systemUsers, failedSince, loading,
                       revokedAt, attempts, resetVars >>

\* PATCH /users/:id with isActive in the body (UsersController.update)
Update(id, isActive) ==
    /\ systemUsers' = [systemUsers EXCEPT ![id].isActive = isActive]
    /\ response' = [NoResponse EXCEPT !.gate = "update", !.subject = id,
                                      !.status = 200]
    /\ UNCHANGED << rbacVars, flightVars, now, authenticationTokens, failedSince, issued >>

\* DELETE /users/:id (UsersController.deactivate)
Deactivate(id) ==
    /\ systemUsers' = [systemUsers EXCEPT ![id].isActive = FALSE]
    /\ response' = [NoResponse EXCEPT !.gate = "deactivate", !.subject = id,
                                      !.status = 204]
    /\ UNCHANGED << rbacVars, flightVars, now, authenticationTokens, failedSince, issued >>

\* half a lock window passes
LockTickMs == LockMs \div 2
MaxLoginNow == NowInit + MaxLockTicks * LockTickMs
LockTick ==
    /\ now + LockTickMs <= MaxLoginNow
    /\ now' = now + LockTickMs
    /\ response' = NoResponse
    /\ UNCHANGED << rbacVars, authVars, flightVars >>

(***************************************************************************)
(* Tokens: authMiddleware, AuthController.refresh and logout                *)
(***************************************************************************)
\* what a client may present in place of a token it was given: the token
\* itself, the token under a signature made without the server's secret, or
\* a string that is no JWT
Malformed == [malformed |-> TRUE]
Forged(token) == [token EXCEPT !.signature = "other"]
Presentable(tokens) == tokens \cup {Forged(t) : t \in tokens} \cup {Malformed}

\* jwt.verify(token, config.jwt.secret) at time now: the structure, then the
\* signature, then the expiry
JwtVerify(token) ==
    IF token = Malformed THEN "JsonWebTokenError"
    ELSE IF token.signature # "secret" THEN "JsonWebTokenError"
    ELSE IF now \div 1000 >= token.exp THEN "TokenExpiredError"
    ELSE "ok"

\* the rows of authentication_tokens that hold a hash of `token'
RecordsOf(token) ==
    {r \in authenticationTokens : r.tokenHash = Bcrypt(token, r.tokenHash.salt)}

\* an authMiddleware that reads the account and takes the tokens of active,
\* unlocked accounts only
AuthMiddlewareResponseActiveOnly(authHeader) ==
    IF authHeader = NoToken
    THEN [status |-> 401, message |-> "Access token is required"]
    ELSE IF /\ JwtVerify(authHeader) = "ok"
            /\ systemUsers[authHeader.payload.userId].isActive
            /\ ~systemUsers[authHeader.payload.userId].isLocked
    THEN [next |-> TRUE, reqUser |-> authHeader.payload]
    ELSE [status |-> 401, message |-> "Invalid access token"]

\* an authMiddleware that takes access tokens only
AuthMiddlewareResponseAccessOnly(authHeader) ==
    IF authHeader = NoToken
    THEN [status |-> 401, message |-> "Access token is required"]
    ELSE IF JwtVerify(authHeader) = "ok" /\ authHeader.payload.type = "access"
    THEN [next |-> TRUE, reqUser |-> authHeader.payload]
    ELSE [status |-> 401, message |-> "Invalid access token"]

\* authMiddleware: the response, or next() with req.user set
AuthMiddlewareResponse(authHeader) ==
    IF authHeader = NoToken
    THEN [status |-> 401, message |-> "Access token is required"]
    ELSE LET verified == JwtVerify(authHeader)
         IN IF verified = "ok"
            THEN [next |-> TRUE, reqUser |-> authHeader.payload]
            ELSE IF verified = "TokenExpiredError"
            THEN [status |-> 401, message |-> "Access token has expired"]
            ELSE IF verified = "JsonWebTokenError"
            THEN [status |-> 401, message |-> "Invalid access token"]
            ELSE [status |-> 401, message |-> "Authentication failed"]

\* a request with Authorization: Bearer <authHeader>, or without the header
AuthMiddleware(authHeader) ==
    /\ response' = Respond("authMiddleware", NoReqUser, << >>,
                           [token |-> authHeader, at |-> now]
                               @@ AuthMiddlewareResponse(authHeader))
    /\ UNCHANGED << rbacVars, now, authVars, flightVars >>

\* no row: what a query with limit(1) returns when nothing matches
NoRow == [absent |-> TRUE]
Limit1(rows) == IF rows = {} THEN {NoRow} ELSE rows

\* a lookup that leaves out the isActive condition
RefreshRecordsAnyState(refreshToken, salt) ==
    IF JwtVerify(refreshToken) # "ok" THEN {}
    ELSE {r \in authenticationTokens :
            /\ r.userId = refreshToken.payload.userId
            /\ r.tokenHash = Bcrypt(refreshToken, salt)
            /\ r.tokenType = "refresh"}

\* the rows refresh's query matches: `salt' is the salt hashToken draws
RefreshRecords(refreshToken, salt) ==
    IF JwtVerify(refreshToken) # "ok" THEN {}
    ELSE {r \in authenticationTokens :
            /\ r.userId = refreshToken.payload.userId
            /\ r.tokenHash = Bcrypt(refreshToken, salt)
            /\ r.tokenType = "refresh"
            /\ r.isActive}

\* POST /auth/refresh with body {refreshToken}; `tokenRecord' is the row the
\* query returns, or NoRow
RefreshResponse(refreshToken, tokenRecord) ==
    IF JwtVerify(refreshToken) # "ok"
    THEN [status |-> 401, message |-> "Invalid refresh token"]
    ELSE
    LET decoded == refreshToken.payload
    IN IF tokenRecord = NoRow \/ tokenRecord.expiresAt < now
       THEN [status |-> 401, message |-> "Refresh token expired or not found"]
       ELSE IF decoded.userId \notin Users \/ ~systemUsers[decoded.userId].isActive
       THEN [status |-> 401, message |-> "User not found or inactive"]
       ELSE [status |-> 200, message |-> "Token refreshed successfully",
             subject |-> decoded.userId,
             accessToken |->
                 generateAccessToken(decoded.userId,
                                     systemUsers[decoded.userId].email,
                                     UserRolesList(decoded.userId), now)]

\* an update that writes what a successful login writes
TouchLikeLogin(userId) ==
    [systemUsers EXCEPT ![userId] =
        [@ EXCEPT !.lastActivityAt = now, !.failedLoginAttempts = 0,
                  !.isLocked = FALSE, !.lockedUntil = Null]]

\* db.update(systemUsers).set({ lastActivityAt: new Date() }) for the account
TouchActivity(userId) == [systemUsers EXCEPT ![userId].lastActivityAt = now]

Refresh(refreshToken, salt, tokenRecord) ==
    LET out == RefreshResponse(refreshToken, tokenRecord)
    IN /\ tokenRecord \in Limit1(RefreshRecords(refreshToken, salt))
       /\ response' = Respond("refresh", NoReqUser, << >>,
                              [token |-> refreshToken, at |-> now] @@ out)
       /\ systemUsers' =
             IF out.status = 200
             THEN TouchActivity(out.subject)
             ELSE systemUsers
       /\ UNCHANGED << rbacVars, flightVars, now, authenticationTokens,
                       failedSince, issued >>

\* the rows logout marks revoked: those whose stored hash equals the hash it
\* computes now
RevokedByLogout(refreshToken, salt) ==
    {r \in authenticationTokens :
        r.tokenHash = Bcrypt(refreshToken, salt) /\ r.tokenType = "refresh"}

\* POST /auth/logout with body {refreshToken} (or none) behind optionalAuth
Logout(refreshToken, reqUser, salt) ==
    LET revoked == IF refreshToken = NoToken THEN {}
                   ELSE RevokedByLogout(refreshToken, salt)
    IN /\ authenticationTokens' =
            {IF r \in revoked THEN [r EXCEPT !.isActive = FALSE] ELSE r :
                r \in authenticationTokens}
       /\ response' = Respond("logout", reqUser, << >>,
                              [token |-> refreshToken, at |-> now, status |-> 200,
                               message |-> "Logged out successfully",
                               wrote |-> revoked # {}])
       /\ systemUsers' =
             IF HasUserId(reqUser) /\ reqUser.userId \in Users
             THEN TouchActivity(reqUser.userId)
             ELSE systemUsers
       /\ UNCHANGED << rbacVars, flightVars, now, failedSince, issued >>

\* AuthUtils.generateResetToken() at time t
generateResetToken(t) == JwtSign([type |-> "password_reset"], t, ResetMs)

\* forgotPassword that tells the caller the email is unknown
ForgotPasswordResponseTelling(user) ==
    IF user = {}
    THEN [status |-> 404, message |-> "User not found"]
    ELSE [status |-> 200,
          message |-> "If the email exists, a password reset link has been sent"]

\* the response of forgotPassword, `user' being the rows its query found
ForgotPasswordResponse(user) ==
    [status |-> 200,
     message |-> "If the email exists, a password reset link has been sent"]

\* POST /auth/forgot-password with body {email}; the reset token goes to the
\* account's mailbox
ForgotPassword(email, salt) ==
    LET user == {u \in Users : systemUsers[u].email = email}
        resetToken == generateResetToken(now)
    IN /\ response' = Respond("forgotPassword", NoReqUser, << >>,
                              [body |-> [email |-> email, password |-> ""],
                               at |-> now, wrote |-> user # {}]
                                  @@ ForgotPasswordResponse(user))
       /\ IF user = {}
          THEN UNCHANGED << authenticationTokens, issued >>
          ELSE /\ Cardinality(authenticationTokens) < MaxTokens
               /\ authenticationTokens' = authenticationTokens \cup
                     {[id |-> Cardinality(authenticationTokens) + 1,
                       userId |-> CHOOSE u \in user : TRUE,
                       tokenType |-> "password_reset",
                       tokenHash |-> Bcrypt(resetToken, salt),
                       expiresAt |-> now + ResetMs, isActive |-> TRUE]}
               /\ issued' = Issue({resetToken})
       /\ UNCHANGED << rbacVars, flightVars, now, systemUsers, failedSince >>

\* the rows resetPassword's query matches
ResetRecords(token, salt) ==
    {r \in authenticationTokens :
        /\ r.tokenHash = Bcrypt(token, salt)
        /\ r.tokenType = "password_reset"
        /\ r.isActive}

\* resetPassword that leaves the account's refresh tokens alone
RefreshRowsOfNobody(userId) == {}

\* the rows resetPassword revokes besides the reset token's: the active
\* refresh tokens of the account
RefreshRowsOf(userId) ==
    {r \in authenticationTokens :
        r.userId = userId /\ r.tokenType = "refresh" /\ r.isActive}

\* POST /auth/reset-password with body {token, password}; `salt' is the salt
\* hashToken draws, `pwSalt' the salt hashPassword draws, `tokenRecord' the
\* row the query returns, or NoRow
ResetPassword(token, password, salt, pwSalt, tokenRecord) ==
    /\ tokenRecord \in Limit1(ResetRecords(token, salt))
    /\ IF tokenRecord = NoRow \/ tokenRecord.expiresAt < now
       THEN /\ response' = Respond("resetPassword", NoReqUser, << >>,
                    [token |-> token, at |-> now, status |-> 400,
                     message |-> "Invalid or expired reset token"])
            /\ UNCHANGED << systemUsers, authenticationTokens, failedSince,
                            issued >>
       ELSE LET userId == tokenRecord.userId
                revoked == {tokenRecord} \cup RefreshRowsOf(userId)
            IN /\ systemUsers' =
                     [systemUsers EXCEPT ![userId] =
                         [@ EXCEPT !.passwordHash = Bcrypt(password, pwSalt),
                                   !.failedLoginAttempts = 0,
                                   !.isLocked = FALSE,
                                   !.lockedUntil = Null]]
               /\ authenticationTokens' =
                     {IF r \in revoked THEN [r EXCEPT !.isActive = FALSE] ELSE r :
                         r \in authenticationTokens}
               /\ failedSince' =
                     [failedSince EXCEPT ![userId] = [count |-> 0, lastAt |-> 0]]
               /\ issued' =
                     {IF "userId" \in DOMAIN i.token.payload
                         /\ i.token.payload.userId = userId
                         /\ i.token.payload.type = "refresh"
                      THEN [i EXCEPT !.beforeReset = TRUE] ELSE i : i \in issued}
               /\ response' = Respond("resetPassword", NoReqUser, << >>,
                     [token |-> token, at |-> now, status |-> 200,
                      message |-> "Password reset successfully",
                      subject |-> userId, wrote |-> TRUE,
                      failedBefore |-> systemUsers[userId].failedLoginAttempts])
    /\ UNCHANGED << rbacVars, flightVars, now >>

\* resetPassword up to the answer of its select: rejected, or suspended with
\* the row it found
ResetBegin(token, salt, tokenRecord) ==
    /\ tokenRecord \in Limit1(ResetRecords(token, salt))
    /\ IF tokenRecord = NoRow \/ tokenRecord.expiresAt < now
       THEN /\ response' = Respond("resetPassword", NoReqUser, << >>,
                    [token |-> token, at |-> now, status |-> 400,
                     message |-> "Invalid or expired reset token"])
            /\ UNCHANGED resetting
       ELSE /\ Cardinality(resetting) < MaxResets
            /\ resetting' = resetting \cup
                  {[n |-> CHOOSE n \in 1..MaxResets :
                             \A req \in resetting : req.n # n,
                    token |-> token, tokenRecord |-> tokenRecord]}
            /\ response' = NoResponse
    /\ UNCHANGED << rbacVars, now, authVars, loading, loggingIn, revokedAt,
                    attempts, redeemed >>

\* resetPassword from its select on: the three updates and the 200
ResetEnd(req, password, pwSalt) ==
    LET userId == req.tokenRecord.userId
        revoked == {r \in authenticationTokens : r.id = req.tokenRecord.id}
                      \cup RefreshRowsOf(userId)
    IN /\ req \in resetting
       /\ resetting' = resetting \ {req}
       /\ redeemed' = redeemed \cup {req.token}
       /\ systemUsers' =
             [systemUsers EXCEPT ![userId] =
                 [@ EXCEPT !.passwordHash = Bcrypt(password, pwSalt),
                           !.failedLoginAttempts = 0,
                           !.isLocked = FALSE,
                           !.lockedUntil = Null]]
       /\ authenticationTokens' =
             {IF r \in revoked THEN [r EXCEPT !.isActive = FALSE] ELSE r :
                 r \in authenticationTokens}
       /\ failedSince' =
             [failedSince EXCEPT ![userId] = [count |-> 0, lastAt |-> 0]]
       /\ issued' =
             {IF "userId" \in DOMAIN i.token.payload
                 /\ i.token.payload.userId = userId
                 /\ i.token.payload.type = "refresh"
              THEN [i EXCEPT !.beforeReset = TRUE] ELSE i : i \in issued}
       /\ response' = Respond("resetPassword", NoReqUser, << >>,
             [token |-> req.token, at |-> now, status |-> 200,
              message |-> "Password reset successfully",
              subject |-> userId, wrote |-> TRUE,
              failedBefore |-> systemUsers[userId].failedLoginAttempts])
       /\ UNCHANGED << rbacVars, now, loading, loggingIn, revokedAt, attempts >>

\* half the stored lifetime of a refresh token passes
TokenTickMs == RefreshMs \div 2
MaxTokenNow == NowInit + MaxTokenTicks * TokenTickMs
TokenTick ==
    /\ now + TokenTickMs <= MaxTokenNow
    /\ now' = now + TokenTickMs
    /\ response' = NoResponse
    /\ UNCHANGED << rbacVars, authVars, flightVars >>

(***************************************************************************)
(* The store the server starts on                                           *)
(***************************************************************************)
\* an expiry that has passed when the server starts
PastExpiry == NowInit - TickMs

\* the rows user_roles may hold for one user and one role: none, an
\* assignment in force, an inactive one, an expired one
RowChoices(u, r) ==
    { {},
      {UserRoleRow(u, r, TRUE, Null)},
      {UserRoleRow(u, r, FALSE, Null)},
      {UserRoleRow(u, r, TRUE, PastExpiry)} }

\* the accounts whose role assignments the administrators edit
ManagedUsers == {"u1"}

InitUserRoles ==
    { a \cup b \cup {UserRoleRow("u2", "r1", TRUE, Null)} :
        a \in {{}, {UserRoleRow("u1", "r1", TRUE, Null)}},
        b \in RowChoices("u1", "r2") }

InitRolePermissions ==
    { {RolePermissionRow("r1", "pm1"), RolePermissionRow("r2", "pm1"),
       RolePermissionRow("r2", "pm2")} }

InitAccount(u) ==
    [email |-> emails[u], passwordHash |-> Bcrypt("pw1", "s1"),
     isActive |-> TRUE, isLocked |-> FALSE, lockedUntil |-> Null,
     failedLoginAttempts |-> 0, lastActivityAt |-> Null]

InitRbac ==
    /\ userRoles \in InitUserRoles
    /\ rolePermissions \in InitRolePermissions
    /\ rolesActive = [r \in RoleIds |-> TRUE]
    /\ permissionCache = EmptyMap
    /\ cacheTimestamps = EmptyMap
    /\ cacheReadAt = EmptyMap
    /\ invalidated = {}
    /\ now = NowInit
    /\ response = NoResponse

InitAuth ==
    /\ systemUsers = [u \in Users |-> InitAccount(u)]
    /\ authenticationTokens = {}
    /\ failedSince = [u \in Users |-> [count |-> 0, lastAt |-> 0]]
    /\ issued = {}

InitFlight ==
    /\ loading = {}
    /\ loggingIn = {}
    /\ revokedAt = [u \in Users |-> Null]
    /\ attempts = [u \in Users |-> NoAttempts]
    /\ resetting = {}
    /\ redeemed = {}

Init == InitRbac /\ InitAuth /\ InitFlight

\* the store behaviours a request can meet: a latency and a failing query,
\* for as many queries as the request issues
StoreRuns(queries, latencies) ==
    IF queries = 0 THEN {[latency |-> 0, fail |-> "none"]}
    ELSE {[latency |-> l, fail |-> f] :
            l \in latencies,
            f \in IF queries = 1 THEN {"none", "first"} ELSE Failures}

LoadRuns(authUser, latencies) ==
    StoreRuns(IF ~HasUserId(authUser) \/ CacheFresh(authUser.userId) THEN 0
              ELSE QueriesOnMiss(authUser.userId), latencies)

RoleRuns(authUser, latencies) ==
    StoreRuns(IF ~HasUserId(authUser) THEN 0 ELSE QueriesOnMiss(authUser.userId),
              latencies)

(***************************************************************************)
(* A request to usersRouter: router.use(authMiddleware), then the layers of *)
(* the route in the order of their registration; `response' carries the     *)
(* request from one layer to the next                                       *)
(***************************************************************************)
\* a router that runs the following layer whatever the layer before it did
LayerAnyway(gate) == TRUE

\* Express runs the following layer when the layer before it called next()
NextCalled(gate) == response.gate = gate /\ response.next

\* requirePermissions(...) registered behind usersRouter.use(authMiddleware)
RouteGate(requiredPermissions) ==
    /\ NextCalled("authMiddleware")
    /\ IF HasUserId(response.reqUser)
       THEN \E run \in LoadRuns(response.reqUser, {0}) :
               RequirePermissions(response.reqUser, requiredPermissions,
                                  run.latency, run.fail)
       ELSE RequirePermissions(response.reqUser, requiredPermissions, 0, "none")

\* GET /users (UsersController.list): reads only
List ==
    /\ response' = [NoResponse EXCEPT !.gate = "list", !.status = 200]
    /\ UNCHANGED << rbacVars, now, authVars, flightVars >>

\* usersRouter.get("/", requirePermissions("users:read"), UsersController.list)
RouteList ==
    /\ NextCalled("requirePermissions")
    /\ response.required = << "users:read" >>
    /\ List

\* usersRouter.delete("/:id", requirePermissions("users:delete"),
\*                    UsersController.deactivate)
RouteDeactivate(id) ==
    /\ NextCalled("requirePermissions")
    /\ response.required = << "users:delete" >>
    /\ Deactivate(id)

(***************************************************************************)
(* Spec: the gates, the role assignments and the cache invalidation, for    *)
(* requests that arrive within one instant of a store that answers at once  *)
(***************************************************************************)
Next ==
    \/ \E authUser \in ReqUsers, required \in RequiredLists :
         \E run \in LoadRuns(authUser, {0}) :
            RequirePermissions(authUser, required, run.latency, run.fail)
    \/ \E authUser \in ReqUsers, required \in RequiredLists :
         \E run \in LoadRuns(authUser, {0}) :
            RequireAnyPermission(authUser, required, run.latency, run.fail)
    \/ \E authUser \in ReqUsers, roleNames \in RoleNameLists :
         \E run \in RoleRuns(authUser, {0}) :
            RequireRole(authUser, roleNames, run.latency, run.fail)
    \/ \E userId \in Users : ClearPermissionCache(userId)
    \/ ClearAllPermissionCaches
    \/ \E id \in ManagedUsers, roleIds \in SUBSET RoleIds \ {{}} : AssignRoles(id, roleIds)
    \/ \E id \in ManagedUsers, roleId \in RoleIds : RemoveRole(id, roleId)

Spec == Init /\ [][Next]_vars

(***************************************************************************)
(* SpecClock: the same gates on a running clock, against a store that may   *)
(* take time to answer                                                      *)
(***************************************************************************)
Identified == {[userId |-> u] : u \in Users}

NextClock ==
    \/ Tick
    \/ \E authUser \in Identified :
         \E run \in LoadRuns(authUser, Latencies) :
            RequirePermissions(authUser, << RevokedSlug >>, run.latency, run.fail)
    \/ \E authUser \in Identified :
         \E run \in LoadRuns(authUser, Latencies) :
            RequireAnyPermission(authUser, << RevokedSlug >>, run.latency, run.fail)
    \/ \E authUser \in Identified :
         \E run \in RoleRuns(authUser, Latencies) :
            RequireRole(authUser, << "admin" >>, run.latency, run.fail)
    \/ \E userId \in Users : ClearPermissionCache(userId)
    \/ \E id \in ManagedUsers, roleId \in RoleIds : RemoveRole(id, roleId)

SpecClock == Init /\ [][NextClock]_vars

(***************************************************************************)
(* SpecLogin: logins to one account, the administrators' activation         *)
(* switch, and the clock in halves of the lock window                       *)
(***************************************************************************)
LoginEmails == {emails["u1"], "nobody@vms.test"}

NextLogin ==
    \/ \E email \in LoginEmails, password \in Passwords, salt \in Salts :
          Login(email, password, salt, RefreshMs)
    \/ \E isActive \in BOOLEAN : Update("u1", isActive)
    \/ Deactivate("u1")
    \/ LockTick

SpecLogin == Init /\ [][NextLogin]_vars

(***************************************************************************)
(* SpecTokens: logins to one account, the use of the tokens they return,    *)
(* and the clock in halves of the stored lifetime of a refresh token        *)
(***************************************************************************)
\* config.jwt.refreshExpiresIn: its default, or twice as long
RefreshExpiresIn == {RefreshMs, 2 * RefreshMs}

IssuedTokens == {i.token : i \in issued}
ResetTokens == {t \in IssuedTokens : t.payload.type = "password_reset"}
RefreshTokens == {t \in IssuedTokens : t.payload.type = "refresh"}

NextTokens ==
    \/ \E refreshExpiresIn \in RefreshExpiresIn :
          Login(emails["u1"], "pw1", "s1", refreshExpiresIn)
    \/ \E authHeader \in Presentable(IssuedTokens) \cup {NoToken} :
          AuthMiddleware(authHeader)
    \/ \E refreshToken \in Presentable(RefreshTokens), salt \in Salts,
          tokenRecord \in authenticationTokens \cup {NoRow} :
          Refresh(refreshToken, salt, tokenRecord)
    \/ \E refreshToken \in RefreshTokens, salt \in Salts :
          Logout(refreshToken, [userId |-> "u1"], salt)
    \/ Logout(NoToken, NoReqUser, "s1")
    \/ TokenTick

\* a store in which the account logging in holds one role
InitTokens == Init /\ userRoles = {UserRoleRow("u1", "r1", TRUE, Null),
                                   UserRoleRow("u2", "r1", TRUE, Null)}

SpecTokens == InitTokens /\ [][NextTokens]_vars

(***************************************************************************)
(* SpecReset: logins to one account, password resets and the use of the     *)
(* refresh tokens                                                           *)
(***************************************************************************)

NextReset ==
    \/ \E password \in Passwords : Login(emails["u1"], password, "s1", RefreshMs)
    \/ \E email \in LoginEmails : ForgotPassword(email, "s1")
    \/ \E token \in ResetTokens \cup {Malformed}, salt \in Salts,
          tokenRecord \in authenticationTokens \cup {NoRow} :
          ResetPassword(token, "pw2", salt, "s1", tokenRecord)
    \/ \E refreshToken \in RefreshTokens, salt \in Salts,
          tokenRecord \in authenticationTokens \cup {NoRow} :
          Refresh(refreshToken, salt, tokenRecord)
    \/ TokenTick

SpecReset == InitTokens /\ [][NextReset]_vars

(***************************************************************************)
(* SpecRoles: the administration of roles, with the gates and login that    *)
(* resolve permissions through them                                         *)
(***************************************************************************)
NextRoles ==
    \/ \E id \in RoleParams, body \in RoleBodies, reqRole \in ReqRoles,
          audit \in AuditLogCall :
          UpdateRole(id, body, reqRole, audit)
    \/ \E id \in RoleParams, audit \in AuditLogCall : DeleteRole(id, audit)
    \/ \E id \in RoleParams, permissionIds \in SUBSET PermissionIds,
          reqRole \in ReqRoles, audit \in AuditLogCall :
          AssignPermissions(id, permissionIds, reqRole, audit)
    \/ \E id \in RoleParams, permissionId \in PermissionIds,
          reqRole \in ReqRoles, audit \in AuditLogCall :
          RemovePermission(id, permissionId, reqRole, audit)
    \/ \E id \in ManagedUsers :
         \E run \in LoadRuns([userId |-> id], {0}) :
            RequirePermissions([userId |-> id], << RevokedSlug >>,
                               run.latency, run.fail)
    \/ Login(emails["u1"], "pw1", "s1", RefreshMs)

SpecRoles == InitTokens /\ [][NextRoles]_vars

(***************************************************************************)
(* SpecLogins: logins of one account that overlap                           *)
(***************************************************************************)
NextLogins ==
    \/ \E email \in LoginEmails, password \in Passwords : LoginBegin(email, password)
    \/ \E req \in loggingIn, threw \in BOOLEAN : LoginWrite(req, threw)
    \/ \E req \in loggingIn : LoginRespond(req, "s1")

SpecLogins == InitTokens /\ [][NextLogins]_vars

(***************************************************************************)
(* SpecRedeem: password-reset requests and redemptions that overlap         *)
(***************************************************************************)
NextRedeem ==
    \/ ForgotPassword(emails["u1"], "s1")
    \/ \E token \in ResetTokens, salt \in Salts,
          tokenRecord \in authenticationTokens \cup {NoRow} :
          ResetBegin(token, salt, tokenRecord)
    \/ \E req \in resetting, password \in Passwords : ResetEnd(req, password, "s1")
    \/ TokenTick

SpecRedeem == InitTokens /\ [][NextRedeem]_vars

(***************************************************************************)
(* SpecRoute: logins to one account and requests to usersRouter with the    *)
(* tokens they return                                                       *)
(***************************************************************************)
NextRoute ==
    \/ \E password \in Passwords : Login(emails["u1"], password, "s1", RefreshMs)
    \/ \E authHeader \in Presentable(IssuedTokens) \cup {NoToken} :
          AuthMiddleware(authHeader)
    \/ \E slug \in Slugs : RouteGate(<< slug >>)
    \/ RouteList
    \/ \E id \in Users : RouteDeactivate(id)
    \/ \E id \in ManagedUsers, roleId \in RoleIds : RemoveRole(id, roleId)

\* a store in which the account logging in holds both roles
InitRoute == Init /\ userRoles = {UserRoleRow("u1", "r1", TRUE, Null),
                                  UserRoleRow("u1", "r2", TRUE, Null),
                                  UserRoleRow("u2", "r1", TRUE, Null)}

SpecRoute == InitRoute /\ [][NextRoute]_vars

(***************************************************************************)
(* SpecRace: a permission check whose store queries are in flight while a   *)
(* role is removed and the cache invalidated                                *)
(***************************************************************************)
NextRace ==
    \/ \E id \in ManagedUsers : LoadBegin(id)
    \/ \E load \in loading : LoadEnd(load, << RevokedSlug >>)
    \/ \E id \in ManagedUsers :
          RequirePermissions([userId |-> id], << RevokedSlug >>, 0, "none")
    \/ \E id \in ManagedUsers, roleId \in RoleIds : RemoveRole(id, roleId)
    \/ \E id \in ManagedUsers : ClearPermissionCache(id)
    \/ Tick

SpecRace == InitTokens /\ [][NextRace]_vars

(***************************************************************************)
(* Properties                                                               *)
(***************************************************************************)
PermissionGates == {"requirePermissions", "requireAnyPermission"}
Gates == PermissionGates \cup {"requireRole"}

\* the request carried no identity: req.user absent or without userId
NoIdentity(reqUser) == reqUser = NoReqUser \/ reqUser.userId = ""

\* the last request was a gate check of an identified account whose lookups
\* did not fail
Checked(gate) ==
    /\ response.gate = gate
    /\ ~NoIdentity(response.reqUser)
    /\ ~response.storeFailed

\* the role assignments of an account that are in force at time t
AssignmentsInForce(userId, t) ==
    {l \in userRoles : /\ l.userId = userId
                       /\ l.isActive
                       /\ (l.expiresAt = Null \/ l.expiresAt >= t)}

\* the union of the slugs granted to the roles of those assignments
EffectivePermissions(userId, t) ==
    {permissions[rp.permissionId].slug :
        rp \in {x \in rolePermissions :
                  \E l \in AssignmentsInForce(userId, t) : l.roleId = x.roleId}}

\* C1: the set loadUserPermissions computes on a cache miss is exactly the
\* union of the slugs granted to the roles of the account's active, unexpired
\* assignments (the empty set when there is none).
C1_UnionOfActiveAssignments ==
    \A gate \in PermissionGates :
        (Checked(gate) /\ ~response.hit) =>
            response.perms =
                EffectivePermissions(response.reqUser.userId, response.readAt)

C3_ReadsWithinTTL ==
    \A gate \in PermissionGates :
        Checked(gate) => response.readAt >= response.at - CACHE_TTL_MS

\* C3 amended: a set returned from the cache at time T was stamped less than
\* CACHE_TTL_MS before T and its store reads were performed no later than
\* that stamp (so they are older than the stamp by the time the load took);
\* a set computed on a miss was read during the call and is stamped when the
\* call returns.
C3_StampWithinTTL ==
    \A gate \in PermissionGates :
        Checked(gate) =>
            LET userId == response.reqUser.userId
            IN /\ MapHas(cacheTimestamps, userId)
               /\ response.readAt = cacheReadAt[userId]
               /\ response.readAt <= cacheTimestamps[userId]
               /\ response.hit =>
                    response.at - cacheTimestamps[userId] < CACHE_TTL_MS
               /\ ~response.hit =>
                    /\ cacheTimestamps[userId] = response.at
                    /\ response.readAt <= response.at

C3_Witness ==
    /\ Checked("requirePermissions")
    /\ response.hit
    /\ response.at - response.readAt > CACHE_TTL_MS

C5_UnauthenticatedFirst ==
    (response.gate \in Gates /\ NoIdentity(response.reqUser)) =>
        /\ response.status = 401
        /\ ~response.next
        /\ response.cacheReads = 0
        /\ response.storeQueries = 0

C5_Witness ==
    /\ response.gate = "requireRole"
    /\ response.reqUser = [userId |-> ""]
    /\ response.status = 401
    /\ userRoles # {}

\* C6: requirePermissions calls next() if and only if every required slug is
\* in the account's permission set (the cached one); otherwise it answers 403
\* and missing lists the required slugs that are not in the set, in the order
\* required.
C6_RequireAll ==
    Checked("requirePermissions") =>
        LET set == permissionCache[response.reqUser.userId]
            absent(p) == p \notin set
        IN /\ response.perms = set
           /\ response.next <=>
                \A i \in 1..Len(response.required) : response.required[i] \in set
           /\ ~response.next =>
                /\ response.status = 403
                /\ response.missing = SelectSeq(response.required, absent)

C6_Witness ==
    /\ Checked("requirePermissions")
    /\ response.status = 403
    /\ Len(response.required) = 2
    /\ response.missing = << response.required[2] >>

\* C7: requireAnyPermission calls next() if and only if at least one required
\* slug is in the account's permission set; otherwise, an empty list included,
\* it answers 403 with required = the whole list.
C7_RequireAny ==
    Checked("requireAnyPermission") =>
        LET set == permissionCache[response.reqUser.userId]
        IN /\ response.perms = set
           /\ response.next <=>
                \E i \in 1..Len(response.required) : response.required[i] \in set
           /\ ~response.next =>
                /\ response.status = 403
                /\ response.requiredOut = response.required

C7_Witness ==
    /\ Checked("requireAnyPermission")
    /\ response.status = 403
    /\ response.required = << >>
    /\ response.perms # {}

\* C8: requireRole never touches the permission cache, and passes if and only
\* if the account has, in the store at the time of the check, an active role
\* assignment whose role name or slug is among the names; otherwise 403.
C8_RequireRoleActiveOnly ==
    Checked("requireRole") =>
        LET names == {response.required[i] : i \in 1..Len(response.required)}
            matching == {l \in userRoles :
                            /\ l.userId = response.reqUser.userId
                            /\ l.isActive
                            /\ \/ roles[l.roleId].name \in names
                               \/ roles[l.roleId].slug \in names}
        IN /\ response.cacheReads = 0
           /\ response.next <=> matching # {}
           /\ ~response.next => response.status = 403

\* C9: a gate whose store query fails answers 500, never 403 and never
\* next(), and leaves the permission cache and its timestamps as they were.
C9_StoreFailureIs500 ==
    [][ (response'.gate \in Gates /\ response'.storeFailed) =>
            /\ response'.status = 500
            /\ ~response'.next
            /\ permissionCache' = permissionCache
            /\ cacheTimestamps' = cacheTimestamps ]_vars

C9_Witness ==
    /\ response.gate = "requirePermissions"
    /\ response.storeFailed
    /\ response.storeQueries = 2
    /\ response.status = 500
    /\ MapHas(permissionCache, response.reqUser.userId)
    /\ permissionCache[response.reqUser.userId] # {}

\* the request was a login to an active account with its current password,
\* made after `LockThreshold' or more failed verifications in a row
CorrectAfterFailures(u) ==
    /\ response'.gate = "login"
    /\ response'.body.email = systemUsers[u].email
    /\ comparePassword(response'.body.password, systemUsers[u].passwordHash)
    /\ systemUsers[u].isActive
    /\ failedSince[u].count >= LockThreshold

\* C10: after 5 consecutive failed password verifications for an active
\* account, a login with the correct password made within 30 minutes of the
\* last of them is rejected as locked and changes nothing; made once the 30
\* minutes have elapsed, it succeeds and leaves failedLoginAttempts = 0, the
\* account unlocked and lockedUntil null.
C10_LockoutThreshold ==
    [][ \A u \in Users :
          CorrectAfterFailures(u) =>
             IF now < failedSince[u].lastAt + LockMs
             THEN /\ response'.status = 401
                  /\ response'.message = "Account is temporarily locked"
                  /\ systemUsers' = systemUsers
                  /\ authenticationTokens' = authenticationTokens
             ELSE /\ response'.status = 200
                  /\ response'.message = "Login successful"
                  /\ systemUsers'[u].failedLoginAttempts = 0
                  /\ ~systemUsers'[u].isLocked
                  /\ systemUsers'[u].lockedUntil = Null ]_vars

C10_Witness ==
    /\ response.gate = "login"
    /\ response.status = 200
    /\ response.failedBefore >= LockThreshold
    /\ systemUsers[response.subject].failedLoginAttempts = 0
    /\ ~systemUsers[response.subject].isLocked
    /\ systemUsers[response.subject].lockedUntil = Null
    /\ authenticationTokens # {}

\* the last request presented a refresh token that a login returned, whose
\* signature and embedded expiry are valid
PresentedIssued(gate) ==
    /\ response.gate = gate
    /\ response.token \in RefreshTokens
    /\ JwtVerify(response.token) = "ok"

\* C11: a refresh token returned by a login, presented to refresh() while a
\* record of it is active and unexpired and the account is active, is found
\* by the hashed-token lookup and yields a new access token.
C11_IssuedRefreshTokenAccepted ==
    ( /\ PresentedIssued("refresh")
      /\ \E r \in RecordsOf(response.token) : r.isActive /\ r.expiresAt >= now
      /\ systemUsers[response.token.payload.userId].isActive )
    => /\ response.status = 200
       /\ response.accessToken # NoToken

\* no record of the presented token is both active and within its stored expiry
NoUsableRecord(token) ==
    /\ RecordsOf(token) # {}
    /\ \A r \in RecordsOf(token) : ~r.isActive \/ r.expiresAt < now

\* a refresh of such a token is answered 401 without an access token
RejectedWithoutRecord ==
    (PresentedIssued("refresh") /\ NoUsableRecord(response.token))
    => /\ response.status = 401
       /\ response.accessToken = NoToken

\* a step leaves every inactive record inactive
NoReactivation ==
    \A r \in authenticationTokens : ~r.isActive =>
        \A q \in authenticationTokens' : q.id = r.id => ~q.isActive

\* C12: a refresh token whose records are all inactive or past their stored
\* expiry is rejected by refresh() with 401 and no access token, although its
\* signature and embedded expiry are valid; no step makes an inactive record
\* active again.
C12_InactiveOrExpiredRejected ==
    /\ []RejectedWithoutRecord
    /\ [][NoReactivation]_vars

\* a refresh was rejected for a token with valid signature and embedded expiry
\* whose only records are revoked but within their stored expiry
C12_Witness ==
    /\ PresentedIssued("refresh")
    /\ NoUsableRecord(response.token)
    /\ \A r \in RecordsOf(response.token) : ~r.isActive /\ r.expiresAt >= now
    /\ response.status = 401

\* the same for a record past its stored expiry but still active
C12_ExpiredRecord ==
    /\ PresentedIssued("refresh")
    /\ \A r \in RecordsOf(response.token) : r.isActive /\ r.expiresAt < now
    /\ RecordsOf(response.token) # {}
    /\ response.status = 401

\* C13: after logout with a refresh token the token's records are inactive,
\* and remain so after a second logout with the same token; both calls answer
\* success; logout without token and identity answers success and changes no
\* token record.
C13_LogoutRevokes ==
    /\ (response.gate = "logout" => response.status = 200)
    /\ ( /\ response.gate = "logout"
         /\ response.token \in RefreshTokens )
       => \A r \in RecordsOf(response.token) : ~r.isActive

\* the presented token was handed out before a successful reset of its
\* account's password and has not been handed out again since
FromBeforeReset(token) == \E i \in issued : i.token = token /\ i.beforeReset

C14_LockCleared ==
    /\ response.gate = "resetPassword"
    /\ response.status = 200
    /\ response.failedBefore >= LockThreshold

\* the last login was refused for an unknown email, a wrong password or a
\* lock: refused, and not because the account is inactive
LoginRefused ==
    /\ response.gate = "login"
    /\ response.status # 200
    /\ response.subject = "" \/ systemUsers[response.subject].isActive

\* C15: two logins refused, each for an unknown email, for a wrong password or
\* for a locked account, get the same status and the same message.
C15_LoginRejectionsAlike ==
    [][(LoginRefused /\ LoginRefused') =>
          /\ response'.status = response.status
          /\ response'.message = response.message]_vars

\* the last request carried a bearer token that fails verification
VerificationFailed ==
    /\ response.gate = "authMiddleware"
    /\ response.token # NoToken
    /\ JwtVerify(response.token) # "ok"

\* C16: authMiddleware answers an expired bearer token with the same status
\* and message as one that is malformed or whose signature is invalid.
C16_VerificationFailuresAlike ==
    [][(VerificationFailed /\ VerificationFailed') =>
          /\ response'.status = response.status
          /\ response'.message = response.message]_vars

\* forgotPassword has answered its last request
ForgotPasswordAnswered == response.gate = "forgotPassword"

\* what a forgotPassword step may change: it adds at most one row, a
\* password_reset row of an account with the request's email, and changes no
\* existing row and no account
ForgotPasswordFrame ==
    ForgotPasswordAnswered' =>
        /\ systemUsers' = systemUsers
        /\ authenticationTokens \subseteq authenticationTokens'
        /\ Cardinality(authenticationTokens' \ authenticationTokens) <= 1
        /\ \A r \in authenticationTokens' \ authenticationTokens :
              /\ r.tokenType = "password_reset"
              /\ r.userId \in Users
              /\ systemUsers[r.userId].email = response'.body.email

\* C17: forgotPassword answers with the same success status and message
\* whether or not an account has the email; it creates a reset-token record
\* only when the account exists and modifies no account and no other record.
C17_ForgotPasswordUniform ==
    /\ [](ForgotPasswordAnswered =>
            /\ response.status = 200
            /\ response.message =
                  "If the email exists, a password reset link has been sent")
    /\ [][ForgotPasswordFrame]_vars

\* forgotPassword answered a request for an email no account has, with
\* accounts and records in the store
C17_Witness ==
    /\ ForgotPasswordAnswered
    /\ \A u \in Users : systemUsers[u].email # response.body.email
    /\ ~response.wrote
    /\ response.status = 200
    /\ authenticationTokens # {}

\* UsersController.assignRoles or removeRole has written and responded
AssignmentWritten ==
    /\ response.gate \in {"assignRoles", "removeRole"}
    /\ response.status = 200
    /\ response.wrote

\* C19: once assignRoles or removeRole for an account has written to the
\* store and responded, the cache holds no entry for the account that the
\* next gate check would use: every such entry was computed before the write.
C19_NoEntryFromBeforeWrite ==
    AssignmentWritten => ~CacheFresh(response.subject)

\* the slugs an account reaches through a role that is active and a grant row
\* with granted = true, whatever the state of the assignment
GrantedByActiveRoles(userId) ==
    {permissions[rp.permissionId].slug :
        rp \in {x \in rolePermissions :
                  /\ x.granted
                  /\ rolesActive[x.roleId]
                  /\ \E l \in userRoles : l.userId = userId /\ l.roleId = x.roleId}}

RoleWrites == {"roles.update", "roles.delete", "roles.assignPermissions",
               "roles.removePermission"}

\* C20: a RolesController operation that has written a role or a grant row
\* has called clearAllPermissionCaches() by the time it responds, also when
\* the audit-log call between the write and the clear failed.
C20_ClearedAfterWrite ==
    (response.gate \in RoleWrites /\ response.wrote) => response.cleared

\* the last request was a requirePermissions(RevokedSlug) check that passed on
\* a cached set although the store grants the account the slug no longer
GrantedOnRevoked ==
    /\ response.gate = "requirePermissions"
    /\ response.next
    /\ response.hit
    /\ response.required = << RevokedSlug >>
    /\ revokedAt[response.reqUser.userId] # Null
    /\ ~HoldsGranting(userRoles, response.reqUser.userId, RevokedSlug)

\* C21 as stated: no check made more than CACHE_TTL_MS after the revocation
\* passes on the revoked permission.
C21_StaleWithinTTL ==
    GrantedOnRevoked =>
        now - revokedAt[response.reqUser.userId] <= CACHE_TTL_MS

\* C21: a recompute that read the store before a revocation may put the
\* revoked permission back in the cache after the invalidation, but no check
\* made more than CACHE_TTL_MS plus the duration of that recompute after the
\* revocation passes on the revoked permission.
C21_StaleWithinTTLAndLatency ==
    GrantedOnRevoked =>
        LET userId == response.reqUser.userId
        IN now - revokedAt[userId] <
              CACHE_TTL_MS + (cacheTimestamps[userId] - cacheReadAt[userId])

\* a check passed on an entry that a recompute read before the revocation and
\* stored after it, more than CACHE_TTL_MS after the revocation
C21_Witness ==
    /\ GrantedOnRevoked
    /\ cacheReadAt[response.reqUser.userId] <= revokedAt[response.reqUser.userId]
    /\ revokedAt[response.reqUser.userId] < cacheTimestamps[response.reqUser.userId]
    /\ now - revokedAt[response.reqUser.userId] > CACHE_TTL_MS

\* the logins of the account that overlapped have all answered, each carried
\* a wrong password and none of their writes threw
FailedTogether(id) ==
    /\ InFlight(id) = {}
    /\ attempts[id].k >= 1
    /\ attempts[id].plain

\* C22: when k logins with a wrong password for one unlocked account have
\* run concurrently from the persisted counter c and all have completed,
\* failedLoginAttempts is at least c+1 and at most c+k, and the account is
\* locked whenever one of them wrote a value of 5 or more
C22_LostUpdatesBounded ==
    \A id \in Users :
        FailedTogether(id) =>
            /\ systemUsers[id].failedLoginAttempts >= attempts[id].c + 1
            /\ systemUsers[id].failedLoginAttempts <= attempts[id].c + attempts[id].k
            /\ attempts[id].high >= LockThreshold =>
                  /\ systemUsers[id].isLocked
                  /\ systemUsers[id].lockedUntil > now

\* two overlapping failures from counter 4: one update is lost, 5 is written
\* and the account is locked
C22_Witness ==
    \E id \in Users :
        /\ FailedTogether(id)
        /\ attempts[id].k >= 2
        /\ attempts[id].c = LockThreshold - 1
        /\ systemUsers[id].failedLoginAttempts = attempts[id].c + 1
        /\ attempts[id].high >= LockThreshold
        /\ systemUsers[id].isLocked

\* the account goes from unlocked to locked in this step
BecomesLocked(id) == ~systemUsers[id].isLocked /\ systemUsers'[id].isLocked

\* the last request was a login that has just answered 200
LoginCompleted ==
    /\ response.gate = "login"
    /\ response.status = 200

\* C23: under any interleaving of concurrent logins, an account goes from
\* active to locked only when at least 5 password verifications have failed
\* for it since its last successful login or password reset, and when a
\* successful login completes the account's failure counter is 0 (no login
\* that started afterwards can have failed yet).
C23_LockOnlyAfterFiveFailures ==
    /\ [][ \A id \in Users :
             BecomesLocked(id) => failedSince'[id].count >= LockThreshold ]_vars
    /\ [](LoginCompleted =>
             systemUsers[response.subject].failedLoginAttempts = 0)

\* the request was a login for the account, which is locked with lockedUntil
\* in the future
LoginWhileLocked(u) ==
    /\ response'.gate = "login"
    /\ response'.body.email = systemUsers[u].email
    /\ systemUsers[u].isLocked
    /\ systemUsers[u].lockedUntil > now

\* C24: a login for an account that is locked with lockedUntil in the future
\* is rejected before any password verification (whatever the password; as
\* locked when the account is active) and leaves failedLoginAttempts,
\* isLocked, lockedUntil and all token records unchanged.
C24_LockedLoginChangesNothing ==
    [][ \A u \in Users :
          LoginWhileLocked(u) =>
             /\ response'.status = 401
             /\ response'.message # "Invalid email or password"
             /\ systemUsers[u].isActive =>
                   response'.message = "Account is temporarily locked"
             /\ systemUsers'[u].failedLoginAttempts = systemUsers[u].failedLoginAttempts
             /\ systemUsers'[u].isLocked = systemUsers[u].isLocked
             /\ systemUsers'[u].lockedUntil = systemUsers[u].lockedUntil
             /\ authenticationTokens' = authenticationTokens ]_vars

\* a login with a wrong password was rejected as locked while the account was
\* locked, and the lock window is the one it had
C24_Witness ==
    /\ response.gate = "login"
    /\ response.status = 401
    /\ response.message = "Account is temporarily locked"
    /\ ~comparePassword(response.body.password,
                        systemUsers[response.subject].passwordHash)
    /\ systemUsers[response.subject].isLocked
    /\ systemUsers[response.subject].lockedUntil > now
    /\ systemUsers[response.subject].lockedUntil < now + LockMs

\* the last request was a login that answered after its password
\* verification: the 401 of a failed one, or the 200
LoginAnsweredAfterVerification ==
    /\ response.gate = "login"
    /\ response.subject # ""
    /\ \/ response.status = 200
       \/ response.status = 401 /\ response.message = "Invalid email or password"

\* C25: login answers only after its write of the lockout fields has been
\* committed: the increment (with the lock fields at the threshold) before
\* the 401 of a failed verification, the reset before the 200 with the
\* tokens; when that write fails the answer is 500 and carries no tokens.
C25_WriteBeforeResponse ==
    /\ LoginAnsweredAfterVerification => response.wrote
    /\ (response.gate = "login" /\ response.storeFailed) =>
          /\ response.status = 500
          /\ response.token = NoToken
          /\ response.accessToken = NoToken

\* the 401 of the failure that reached the threshold, sent when the counter
\* and the lock were in the store
C25_Witness ==
    /\ LoginAnsweredAfterVerification
    /\ response.status = 401
    /\ response.wrote
    /\ response.failedBefore + 1 >= LockThreshold
    /\ systemUsers[response.subject].failedLoginAttempts >= LockThreshold
    /\ systemUsers[response.subject].isLocked

\* the 500 of a login whose write failed
C25_WriteFailed ==
    /\ response.gate = "login"
    /\ response.storeFailed
    /\ response.status = 500

\* a resetPassword call changes a password with its token in this step
Redeems(req) == req \in resetting /\ req \notin resetting'

\* a resetPassword call passes the lookup of its token in this step
PassesLookup(req) == req \in resetting' /\ req \notin resetting

ButActivity(user) == [user EXCEPT !.lastActivityAt = Null]

\* C27: a successful refresh returns a new access token and nothing else,
\* leaves every token record as it was (the presented token's record stays
\* active with its expiry, no record is inserted) and changes no account
\* field but lastActivityAt of the token's account; a rejected refresh
\* changes no state.
C27_RefreshFrame ==
    [][ response'.gate = "refresh" =>
          /\ authenticationTokens' = authenticationTokens
          /\ issued' = issued
          /\ \A u \in Users : ButActivity(systemUsers'[u]) = ButActivity(systemUsers[u])
          /\ IF response'.status = 200
             THEN /\ response'.accessToken # NoToken
                  /\ response'.accessToken.payload.type = "access"
                  /\ \A u \in Users \ {response'.subject} :
                        systemUsers'[u] = systemUsers[u]
                  /\ \E r \in authenticationTokens' :
                        /\ r \in RecordsOf(response'.token)
                        /\ r.isActive
             ELSE /\ response'.accessToken = NoToken
                  /\ systemUsers' = systemUsers ]_vars

\* a refresh has succeeded for an account with failed logins on its counter,
\* at a later time than the login that stored the token's record
C27_Witness ==
    /\ response.gate = "refresh"
    /\ response.status = 200
    /\ systemUsers[response.subject].lastActivityAt = now
    /\ systemUsers[response.subject].failedLoginAttempts > 0
    /\ \E r \in RecordsOf(response.token) :
          r.isActive /\ r.expiresAt < now + RefreshMs

Middlewares == {"authMiddleware", "requirePermissions"}
Handlers == {"list", "deactivate"}

\* C28: within a request to a router, authMiddleware has completed (and
\* called next()) before the permission lookup starts, the handler runs only
\* after the permission gate has called next(), and a 401, 403 or 500 from
\* either middleware means that the handler does not run and that nothing is
\* written to the store.
C28_MiddlewareOrder ==
    [][ /\ response'.gate = "requirePermissions" =>
              /\ response.gate = "authMiddleware"
              /\ response.next
              /\ response'.reqUser = response.reqUser
        /\ response'.gate \in Handlers =>
              /\ response.gate = "requirePermissions"
              /\ response.next
              /\ response.status \notin {401, 403, 500}
        /\ (response'.gate \in Middlewares /\ response'.status \in {401, 403, 500}) =>
              /\ ~response'.next
              /\ systemUsers' = systemUsers
              /\ authenticationTokens' = authenticationTokens
              /\ userRoles' = userRoles
              /\ rolePermissions' = rolePermissions ]_vars

\* the handler of DELETE /users/:id has run and written, for a request whose
\* token was verified and whose permission was looked up
C28_Witness ==
    /\ response.gate = "deactivate"
    /\ \E u \in Users : ~systemUsers[u].isActive

\* a request was turned away by the permission gate with 403
C28_Refused ==
    /\ response.gate = "requirePermissions"
    /\ response.status = 403

\* the unexpired access tokens issued to the account
AccessTokensOf(userId) ==
    {t \in IssuedTokens :
        /\ t.payload.type = "access"
        /\ t.payload.userId = userId
        /\ JwtVerify(t) = "ok"}

\* the last request came to the permission gate with a refresh token as its
\* bearer token
GatedWithRefreshToken ==
    /\ response.gate = "requirePermissions"
    /\ response.reqUser # NoReqUser
    /\ response.reqUser.type = "refresh"

\* what a gate answered
Decision(r) == [status |-> r.status, next |-> r.next, message |-> r.message,
                missing |-> r.missing]

\* C29: authMiddleware accepts any unexpired token signed with the secret
\* without looking at its kind: a refresh token presented as bearer token
\* passes with the userId that an access token of the account carries, and
\* the permission gate then decides as it does for the access token.
C29_RefreshTokenAsBearer ==
    /\ ( /\ response.gate = "authMiddleware"
         /\ response.token \in RefreshTokens
         /\ JwtVerify(response.token) = "ok" ) =>
            /\ response.next
            /\ response.reqUser.userId = response.token.payload.userId
            /\ \A t \in AccessTokensOf(response.token.payload.userId) :
                  AuthMiddlewareResponse(t).reqUser.userId = response.reqUser.userId
    /\ GatedWithRefreshToken =>
          \A t \in AccessTokensOf(response.reqUser.userId) :
             Decision(response) =
                Decision(Respond("requirePermissions", t.payload, response.required,
                            RequirePermissionsResponse(t.payload, response.required,
                                [threw |-> response.storeFailed,
                                 perms |-> response.perms])))

\* a request with a refresh token as bearer token has passed the permission
\* gate, which an access token of the account would pass as well
C29_Witness ==
    /\ GatedWithRefreshToken
    /\ response.next
    /\ AccessTokensOf(response.reqUser.userId) # {}

\* the account's row but for the flags of deactivation and lockout
ButFlags(user) ==
    [user EXCEPT !.isActive = TRUE, !.isLocked = FALSE, !.lockedUntil = Null,
                 !.failedLoginAttempts = 0]

\* this step changes those flags of some account and nothing else in the
\* store
OnlyFlagsChange ==
    /\ systemUsers' # systemUsers
    /\ \A u \in Users : ButFlags(systemUsers'[u]) = ButFlags(systemUsers[u])
    /\ UNCHANGED << rbacVars, now, authenticationTokens, issued >>

\* what each gate decides for the account in the present store
GateDecisions(userId) ==
    [slug \in Slugs |->
        [all |-> RequirePermissionsResponse([userId |-> userId], << slug >>,
                    LoadUserPermissions(userId, 0, "none")),
         any |-> RequireAnyPermissionResponse([userId |-> userId], << slug >>,
                    LoadUserPermissions(userId, 0, "none")),
         role |-> [name \in RoleNames |->
                     RequireRoleResponse([userId |-> userId], << name >>, "none")]]]

\* the last request passed a middleware for an account that is deactivated
\* or locked
PassedThroughDisabled(gate) ==
    /\ response.gate = gate
    /\ response.next
    /\ \/ ~systemUsers[response.reqUser.userId].isActive
       \/ systemUsers[response.reqUser.userId].isLocked

\* C30: what authMiddleware and the gates decide does not depend on isActive
\* and isLocked of the requesting account: over a step that changes only
\* those flags, every issued token gets the same answer from authMiddleware
\* and every account the same decision from every gate, so an unexpired
\* access token of a deactivated or locked account is let through.
C30_GatesIgnoreAccountFlags ==
    /\ [][ OnlyFlagsChange =>
             /\ \A t \in IssuedTokens :
                   AuthMiddlewareResponse(t)' = AuthMiddlewareResponse(t)
             /\ \A u \in Users : GateDecisions(u)' = GateDecisions(u) ]_vars
    /\ []( ( /\ response.gate = "authMiddleware"
             /\ response.token \in IssuedTokens
             /\ JwtVerify(response.token) = "ok" ) => response.next )

\* the permission gate has let through a request of a deactivated account
C30_Witness ==
    /\ PassedThroughDisabled("requirePermissions")
    /\ ~systemUsers[response.reqUser.userId].isActive
    /\ response.reqUser.type = "access"

\* authMiddleware has let through a request of a locked account
C30_Locked ==
    /\ PassedThroughDisabled("authMiddleware")
    /\ systemUsers[response.reqUser.userId].isLocked
    /\ response.reqUser.type = "access"

====
